---- MODULE Spec2Model ----
(***************************************************************************)
(* Model of the response-quality subsystem of PersonaSay                   *)
(* (backend/app/response_validator.py, backend/app/evaluators.py).         *)
(*                                                                         *)
(* Python values are modelled with their run-time type: a value is a      *)
(* record [type, val].  A str (and a bytes object) is a sequence of        *)
(* one-character strings, so that splitting, lower-casing, substring and   *)
(* regular-expression search are computed on characters as the code does. *)
(* A call either returns a value or raises an exception.                   *)
(***************************************************************************)
EXTENDS Integers, Sequences, FiniteSets, TLC

VARIABLES
    response,       \* the response text handed to the validator
    persona_data,   \* the persona profile handed to the validator
    pc,             \* what the caller has called so far
    result,         \* the outcome of the last call
    suggestions,    \* the outcome of get_improvement_suggestions
    seen,           \* history: for every report returned so far, the points
                    \* earned by the range check and by the optimal-window check
    other_responses,    \* the sibling responses handed to the uniqueness scorer
    threshold,          \* its similarity threshold, in thousandths
    persona_role,       \* the role handed to evaluate_role_consistency
    active_persona_ids, \* the persona ids of the turn handed to get_all_responses
    tasks,              \* its task list: the persona and the state of each coroutine
    responses,          \* its list of response entries
    memory,             \* the chat memory of every agent
    db,                 \* the committed rows of persona_memories
    log,                \* the events logged in the turn
    calls,              \* history: the validator calls made in the turn
    max_in_flight,      \* history: the most model calls in flight at one time
    langchain_manager,  \* the module global of dependencies.py
    suspended,          \* the requests that wait: for the event loop thread, with
                        \* what their dependency returned or raised, or at an
                        \* await, with the manager their route holds
    running,            \* the route body the event loop thread is running, if any
    events              \* history: the calls made on the application so far

scorer_vars == <<other_responses, threshold, persona_role>>
turn_vars == <<active_persona_ids, tasks, responses, memory, db, log, calls, max_in_flight>>
manager_vars == <<langchain_manager, suspended, running, events>>
vars == <<response, persona_data, pc, result, suggestions, seen, scorer_vars, turn_vars,
          manager_vars>>

-----------------------------------------------------------------------------
(* Python values and call outcomes *)

PyStr(s) == [type |-> "str", val |-> s]
PyBytes(s) == [type |-> "bytes", val |-> s]
PyList(s) == [type |-> "list", val |-> s]
PyBool(b) == [type |-> "bool", val |-> b]
PyInt(n) == [type |-> "int", val |-> n]
PyNone == [type |-> "NoneType", val |-> <<>>]

IsNone(v) == v.type = "NoneType"
IsFalse(v) == v.type = "bool" /\ v.val = FALSE
IsTrue(v) == v.type = "bool" /\ v.val = TRUE

\* truth value of a Python object, as used by `if x`, `not x`, `a if x else b`
Truthy(v) ==
    CASE v.type = "bool" -> v.val
      [] v.type = "int" -> v.val # 0
      [] v.type = "NoneType" -> FALSE
      [] OTHER -> v.val # <<>>

NotCalled == [kind |-> "none"]
Return(v) == [kind |-> "return", value |-> v]
Raise(e) == [kind |-> "raise", exc |-> e]

-----------------------------------------------------------------------------
(* Characters and text primitives *)

\* the characters of a text are those of Latin-1; the classes below are
\* Python's for these characters

\* the decimal digits: \d of a str pattern
Digit == {"0", "1", "2", "3", "4", "5", "6", "7", "8", "9"}

\* str.isdigit(): the decimal digits and the superscript digits
isdigit_chars == Digit \cup {"¹", "²", "³"}

\* the separators of bytes.split(): tab, line feed, vertical tab, form feed,
\* carriage return, space
BytesWhitespace == {" ", "\t", "\n", "\r", "\f", ""}

\* the separators of str.split(): those of bytes and the separators
\* U+001C..U+001F, the next-line character U+0085 and the no-break space U+00A0
Whitespace == BytesWhitespace \cup {"", "", "", "", "", " "}

\* bytes.lower() changes the letters A..Z only
BytesUpperToLower ==
    [A |-> "a", B |-> "b", C |-> "c", D |-> "d", E |-> "e", F |-> "f",
     G |-> "g", H |-> "h", I |-> "i", J |-> "j", K |-> "k", L |-> "l",
     M |-> "m", N |-> "n", O |-> "o", P |-> "p", Q |-> "q", R |-> "r",
     S |-> "s", T |-> "t", U |-> "u", V |-> "v", W |-> "w", X |-> "x",
     Y |-> "y", Z |-> "z"]

\* str.lower() also changes the accented capitals; the domain is the set of
\* characters for which str.isupper() holds
UpperToLower ==
    BytesUpperToLower @@
    ("À" :> "à") @@ ("Á" :> "á") @@ ("Â" :> "â") @@ ("Ã" :> "ã") @@ ("Ä" :>
    "ä") @@ ("Å" :> "å") @@ ("Æ" :> "æ") @@ ("Ç" :> "ç") @@ ("È" :> "è") @@
    ("É" :> "é") @@ ("Ê" :> "ê") @@ ("Ë" :> "ë") @@ ("Ì" :> "ì") @@ ("Í" :>
    "í") @@ ("Î" :> "î") @@ ("Ï" :> "ï") @@ ("Ð" :> "ð") @@ ("Ñ" :> "ñ") @@
    ("Ò" :> "ò") @@ ("Ó" :> "ó") @@ ("Ô" :> "ô") @@ ("Õ" :> "õ") @@ ("Ö" :>
    "ö") @@ ("Ø" :> "ø") @@ ("Ù" :> "ù") @@ ("Ú" :> "ú") @@ ("Û" :> "û") @@
    ("Ü" :> "ü") @@ ("Ý" :> "ý") @@ ("Þ" :> "þ")

\* str.lower(); the result is kept as a sequence value
lower(t) ==
    [i \in 1..Len(t) |-> IF t[i] \in DOMAIN UpperToLower THEN UpperToLower[t[i]] ELSE t[i]]
    \o <<>>

\* bytes.lower()
bytes_lower(t) ==
    [i \in 1..Len(t) |->
        IF t[i] \in DOMAIN BytesUpperToLower THEN BytesUpperToLower[t[i]] ELSE t[i]]
    \o <<>>

\* the maximal runs of characters of t[lo..hi] that are not in ws, in order.
\* The two halves of a range are split on their own and a word that spans
\* the middle is glued together.
RECURSIVE SplitRange(_, _, _, _)
SplitRange(t, lo, hi, ws) ==
    IF lo > hi THEN <<>>
    ELSE IF lo = hi
         THEN IF t[lo] \in ws THEN <<>> ELSE << <<t[lo]>> >>
         ELSE LET mid == (lo + hi) \div 2
                  L == SplitRange(t, lo, mid, ws)
                  R == SplitRange(t, mid + 1, hi, ws)
              IN IF t[mid] \notin ws /\ t[mid + 1] \notin ws
                 THEN SubSeq(L, 1, Len(L) - 1) \o <<L[Len(L)] \o R[1]>> \o Tail(R)
                 ELSE L \o R

\* str.split()
split(t) == SplitRange(t, 1, Len(t), Whitespace)

\* bytes.split()
bytes_split(t) == SplitRange(t, 1, Len(t), BytesWhitespace)

\* text.split() and text.lower() for a text that is a str or a bytes object
SplitOf(text) == IF text.type = "bytes" THEN bytes_split(text.val) ELSE split(text.val)
LowerOf(text) == IF text.type = "bytes" THEN bytes_lower(text.val) ELSE lower(text.val)

\* k occurs in t starting at position i
OccursAt(k, t, i) ==
    /\ i + Len(k) - 1 <= Len(t)
    /\ \A j \in 1..Len(k) : t[i + j - 1] = k[j]

\* Python `k in t` for two strings (the empty string occurs in every string)
Contains(t, k) == \E i \in 1..(Len(t) - Len(k) + 1) : OccursAt(k, t, i)

abs(n) == IF n < 0 THEN -n ELSE n

-----------------------------------------------------------------------------
(* ResponseValidator: constants set in __init__ *)

min_word_count == 150
max_word_count == 250
target_word_count == 200
min_quality_score == 75

\* A pattern of the shape  prefix class+ (alt1|alt2|...)  : every pattern of
\* number_patterns has this shape once an optional trailing character
\* (K?, s?) is dropped, which does not change whether a search succeeds.
number_patterns ==
    << [prefix |-> <<"$">>, class |-> Digit \cup {","}, alts |-> {<<>>}],
       [prefix |-> <<>>, class |-> Digit, alts |-> {<<"%">>}],
       [prefix |-> <<>>, class |-> Digit,
        alts |-> {<<" ","p","e","o","p","l","e">>, <<" ","p","e","r","s","o","n">>,
                  <<" ","t","r","a","d","e","r","s">>,
                  <<" ","e","m","p","l","o","y","e","e","s">>}],
       [prefix |-> <<>>, class |-> Digit,
        alts |-> {<<" ","y","e","a","r">>, <<" ","m","o","n","t","h">>,
                  <<" ","w","e","e","k">>, <<" ","d","a","y">>}],
       [prefix |-> <<>>, class |-> Digit,
        alts |-> {<<" ","m","i","n","u","t","e">>, <<" ","h","o","u","r">>}] >>

\* re.search(pattern, text, re.IGNORECASE), given t = lower(text): the letters
\* of the patterns are lower-case, so the search ignores case
re_search(pattern, t) ==
    LET n == Len(t)
        p == Len(pattern.prefix)
    IN \E i \in 1..(n - p) :
          /\ t[i + p] \in pattern.class
          /\ OccursAt(pattern.prefix, t, i)
          /\ \E m \in 1..(n - p - i + 1) :
                /\ \A j \in (i + p)..(i + p + m - 1) : t[j] \in pattern.class
                /\ \E a \in pattern.alts : OccursAt(a, t, i + p + m)

constraint_keywords ==
    << <<"b","u","d","g","e","t">>, <<"a","p","p","r","o","v","a","l">>,
       <<"c","f","o">>, <<"t","e","a","m">>, <<"g","o","a","l">>,
       <<"c","o","n","s","t","r","a","i","n","t">>, <<"l","i","m","i","t">>,
       <<"r","e","q","u","i","r","e">>,
       <<"n","e","e","d"," ","t","o"," ","j","u","s","t","i","f","y">> >>

\* sum(1 for x in items if x.lower() in response.lower())
CountFound(items, text) ==
    LET t == lower(text)
    IN Cardinality({i \in 1..Len(items) : Contains(t, lower(items[i].val))})

\* round(num/den, 1) as a whole number of tenths, ties to even
Round1(num, den) ==
    LET q == (num * 10) \div den
        r == (num * 10) % den
    IN IF 2 * r > den \/ (2 * r = den /\ q % 2 = 1) THEN q + 1 ELSE q

Issue(check, msg, args) == [check |-> check, msg |-> msg, args |-> args]

\* Check 1: word count
word_count_in_range(word_count) ==
    min_word_count <= word_count /\ word_count <= max_word_count

\* the window measured from the upper limit instead of the target
word_count_optimal_from_max(word_count) == abs(word_count - max_word_count) <= 25

word_count_optimal(word_count) == abs(word_count - target_word_count) <= 25

\* Check 2: has specific numbers
has_specific_numbers(text) ==
    LET t == lower(text)
    IN \E p \in 1..Len(number_patterns) : re_search(number_patterns[p], t)

\* an empty term list reported as a failed check
uses_domain_terms_empty_fails(domain_terms, text) ==
    [check |-> PyBool(CountFound(domain_terms, text) >= 2),
     count |-> PyInt(CountFound(domain_terms, text))]

\* Check 3: uses role-specific terminology; the check and the count stored with it
uses_domain_terms(domain_terms, text) ==
    IF domain_terms # <<>>
    THEN LET terms_found == CountFound(domain_terms, text)
         IN [check |-> PyBool(terms_found >= 2), count |-> PyInt(terms_found)]
    ELSE [check |-> PyNone, count |-> PyInt(0)]

\* Check 4: references constraints
mentions_constraints(text) ==
    LET t == lower(text)
    IN \E k \in 1..Len(constraint_keywords) : Contains(t, constraint_keywords[k])

\* Check 5: uses typical phrases; the check and the count stored with it
uses_typical_phrases(typical_phrases, text) ==
    IF typical_phrases # <<>>
    THEN LET phrases_found == CountFound(typical_phrases, text)
         IN [check |-> PyBool(phrases_found >= 1), count |-> PyInt(phrases_found)]
    ELSE [check |-> PyNone, count |-> PyInt(0)]

\* the optimal window weighted like the domain terms
score_components_optimal_heavy(checks) ==
    [word_count_in_range |-> IF Truthy(checks.word_count_in_range) THEN 15 ELSE 0,
     word_count_optimal |-> IF Truthy(checks.word_count_optimal) THEN 25 ELSE 0,
     has_specific_numbers |-> IF Truthy(checks.has_specific_numbers) THEN 20 ELSE 0,
     uses_domain_terms |-> IF Truthy(checks.uses_domain_terms) THEN 25 ELSE 0,
     mentions_constraints |-> IF Truthy(checks.mentions_constraints) THEN 20 ELSE 0,
     uses_typical_phrases |-> IF Truthy(checks.uses_typical_phrases) THEN 15 ELSE 0]

\* the points earned by each scored check
score_components(checks) ==
    [word_count_in_range |-> IF Truthy(checks.word_count_in_range) THEN 15 ELSE 0,
     word_count_optimal |-> IF Truthy(checks.word_count_optimal) THEN 5 ELSE 0,
     has_specific_numbers |-> IF Truthy(checks.has_specific_numbers) THEN 20 ELSE 0,
     uses_domain_terms |-> IF Truthy(checks.uses_domain_terms) THEN 25 ELSE 0,
     mentions_constraints |-> IF Truthy(checks.mentions_constraints) THEN 20 ELSE 0,
     uses_typical_phrases |-> IF Truthy(checks.uses_typical_phrases) THEN 15 ELSE 0]

\* sum(score_components.values())
total_score(components) ==
    components.word_count_in_range + components.word_count_optimal
    + components.has_specific_numbers + components.uses_domain_terms
    + components.mentions_constraints + components.uses_typical_phrases

\* the typical-phrase points kept in the total when the check is None
total_possible_keeps_phrases(checks) ==
    100 - (IF IsNone(checks.uses_domain_terms) THEN 25 ELSE 0)

\* the points that can be earned: a check that is None is left out
total_possible(checks) ==
    100 - (IF IsNone(checks.uses_domain_terms) THEN 25 ELSE 0)
        - (IF IsNone(checks.uses_typical_phrases) THEN 15 ELSE 0)

\* the total scaled by possible/100 instead of 100/possible
normalized_score_scaled_down(total, possible) ==
    IF possible < 100
    THEN [num |-> total * possible, den |-> 100]
    ELSE [num |-> total, den |-> 1]

\* the score before rounding, as the fraction num/den
normalized_score(total, possible) ==
    IF possible < 100
    THEN IF possible > 0
         THEN [num |-> total * 100, den |-> possible]
         ELSE [num |-> 0, den |-> 1]
    ELSE [num |-> total, den |-> 1]

\* `not checks[...]` in place of `checks[...] is False`: None reported as an issue
identify_issues_not_truthy(checks, word_count) ==
    (IF ~Truthy(checks.word_count_in_range)
     THEN IF word_count < min_word_count
          THEN <<Issue("word_count_in_range", "Too short", <<word_count, min_word_count>>)>>
          ELSE <<Issue("word_count_in_range", "Too long", <<word_count, max_word_count>>)>>
     ELSE <<>>)
    \o (IF ~Truthy(checks.has_specific_numbers)
        THEN <<Issue("has_specific_numbers", "Missing specific numbers", <<>>)>>
        ELSE <<>>)
    \o (IF ~Truthy(checks.uses_domain_terms)
        THEN <<Issue("uses_domain_terms", "Only domain terms",
                     <<checks.domain_terms_count.val>>)>>
        ELSE <<>>)
    \o (IF ~Truthy(checks.mentions_constraints)
        THEN <<Issue("mentions_constraints", "Doesn't reference constraints", <<>>)>>
        ELSE <<>>)
    \o (IF ~Truthy(checks.uses_typical_phrases)
        THEN <<Issue("uses_typical_phrases", "Only typical phrases",
                     <<checks.phrases_count.val>>)>>
        ELSE <<>>)

\* the issues list, in the order the code appends to it
identify_issues(checks, word_count) ==
    (IF ~Truthy(checks.word_count_in_range)
     THEN IF word_count < min_word_count
          THEN <<Issue("word_count_in_range", "Too short", <<word_count, min_word_count>>)>>
          ELSE <<Issue("word_count_in_range", "Too long", <<word_count, max_word_count>>)>>
     ELSE <<>>)
    \o (IF ~Truthy(checks.has_specific_numbers)
        THEN <<Issue("has_specific_numbers", "Missing specific numbers", <<>>)>>
        ELSE <<>>)
    \o (IF IsFalse(checks.uses_domain_terms)
        THEN <<Issue("uses_domain_terms", "Only domain terms",
                     <<checks.domain_terms_count.val>>)>>
        ELSE <<>>)
    \o (IF ~Truthy(checks.mentions_constraints)
        THEN <<Issue("mentions_constraints", "Doesn't reference constraints", <<>>)>>
        ELSE <<>>)
    \o (IF IsFalse(checks.uses_typical_phrases)
        THEN <<Issue("uses_typical_phrases", "Only typical phrases",
                     <<checks.phrases_count.val>>)>>
        ELSE <<>>)

\* a strict comparison with the threshold
passed_verdict_strict(score) == score.num > min_quality_score * score.den

\* passed = score >= self.min_quality_score, on the score before rounding
passed_verdict(score) == score.num >= min_quality_score * score.den

\* what `x.lower() in response.lower()` raises at the first item of the list
\* that is not a str: a bytes item has lower() and fails the `in` of a str
\* with a TypeError, any other item has no lower()
lower_in_str_error(items) ==
    LET first == CHOOSE i \in 1..Len(items) :
                    /\ items[i].type # "str"
                    /\ \A j \in 1..(i - 1) : items[j].type = "str"
    IN IF items[first].type = "bytes" THEN "TypeError" ELSE "AttributeError"

\* ResponseValidator.validate_response_quality.  The score of the report is
\* a whole number of tenths of a point (round(score, 1) * 10).
validate_response_quality(resp, pdata) ==
    IF resp.type \notin {"str", "bytes"}
    THEN Raise("AttributeError")              \* response.split()
    ELSE IF resp.type = "bytes"
    THEN Raise("TypeError")                   \* re.search of a str pattern in bytes
    ELSE
    LET word_count == Len(split(resp.val))
        domain_terms == pdata.domain_expertise.terms_used_frequently
        typical_phrases == pdata.communication_style.typical_phrases
    IN
    IF \E i \in 1..Len(domain_terms) : domain_terms[i].type # "str"
    THEN Raise(lower_in_str_error(domain_terms))       \* term.lower() in response.lower()
    ELSE IF \E i \in 1..Len(typical_phrases) : typical_phrases[i].type # "str"
    THEN Raise(lower_in_str_error(typical_phrases))    \* phrase.lower() in response.lower()
    ELSE
    LET terms == uses_domain_terms(domain_terms, resp.val)
        phrases == uses_typical_phrases(typical_phrases, resp.val)
        checks ==
            [word_count_in_range |-> PyBool(word_count_in_range(word_count)),
             word_count_optimal |-> PyBool(word_count_optimal(word_count)),
             has_specific_numbers |-> PyBool(has_specific_numbers(resp.val)),
             uses_domain_terms |-> terms.check,
             domain_terms_count |-> terms.count,
             mentions_constraints |-> PyBool(mentions_constraints(resp.val)),
             uses_typical_phrases |-> phrases.check,
             phrases_count |-> phrases.count]
        components == score_components(checks)
        score == normalized_score(total_score(components), total_possible(checks))
    IN Return([passed |-> passed_verdict(score),
               score |-> Round1(score.num, score.den),
               checks |-> checks,
               issues |-> identify_issues(checks, word_count),
               word_count |-> word_count,
               score_breakdown |-> components])

\* first n elements of a list: items[:n]
Take(items, n) == SubSeq(items, 1, IF Len(items) < n THEN Len(items) ELSE n)

\* the lower limit itself treated as too short
word_count_suggestion_inclusive(word_count) ==
    IF word_count <= min_word_count
    THEN <<Issue("word_count_in_range", "Add more detail", <<min_word_count - word_count>>)>>
    ELSE IF word_count > max_word_count
         THEN <<Issue("word_count_in_range", "Be more concise", <<word_count - max_word_count>>)>>
         ELSE <<>>

\* Word count suggestions
word_count_suggestion(word_count) ==
    IF word_count < min_word_count
    THEN <<Issue("word_count_in_range", "Add more detail", <<min_word_count - word_count>>)>>
    ELSE IF word_count > max_word_count
         THEN <<Issue("word_count_in_range", "Be more concise", <<word_count - max_word_count>>)>>
         ELSE <<>>

\* ResponseValidator.get_improvement_suggestions
get_improvement_suggestions(validation_result, pdata) ==
    LET checks == validation_result.checks
        word_count == validation_result.word_count
        terms == pdata.domain_expertise.terms_used_frequently
        phrases == pdata.communication_style.typical_phrases
    IN Return(
        word_count_suggestion(word_count)
        \o (IF ~Truthy(checks.has_specific_numbers)
            THEN <<Issue("has_specific_numbers", "Add specific numbers", <<>>)>>
            ELSE <<>>)
        \o (IF IsFalse(checks.uses_domain_terms) /\ terms # <<>>
            THEN <<Issue("uses_domain_terms", "Use role-specific terms", Take(terms, 5))>>
            ELSE <<>>)
        \o (IF ~Truthy(checks.mentions_constraints)
            THEN <<Issue("mentions_constraints", "Reference constraints", <<>>)>>
            ELSE <<>>)
        \o (IF IsFalse(checks.uses_typical_phrases) /\ phrases # <<>>
            THEN <<Issue("uses_typical_phrases", "Use typical phrases", <<phrases[1]>>)>>
            ELSE <<>>))

-----------------------------------------------------------------------------
(* evaluators.py.  Evaluator scores are whole hundredths (1.0 is 100). *)

\* 300 words treated as too long
evaluate_response_length_long_exclusive(resp) ==
    IF resp.type \notin {"str", "bytes"}
    THEN Raise("AttributeError")
    ELSE
    LET word_count == Len(SplitOf(resp))
        band ==
            IF 150 <= word_count /\ word_count <= 250 THEN <<100, "optimal">>
            ELSE IF 100 <= word_count /\ word_count < 150 THEN <<80, "acceptable_short">>
            ELSE IF 250 < word_count /\ word_count < 300 THEN <<80, "acceptable_long">>
            ELSE IF word_count < 100 THEN <<50, "too_short">>
            ELSE <<50, "too_long">>
    IN Return([score |-> band[1], word_count |-> word_count, status |-> band[2],
               target_range |-> "150-250 words"])

\* evaluate_response_length
evaluate_response_length(resp) ==
    IF resp.type \notin {"str", "bytes"}
    THEN Raise("AttributeError")              \* no attribute 'split'
    ELSE
    LET word_count == Len(SplitOf(resp))
        band ==
            IF 150 <= word_count /\ word_count <= 250 THEN <<100, "optimal">>
            ELSE IF 100 <= word_count /\ word_count < 150 THEN <<80, "acceptable_short">>
            ELSE IF 250 < word_count /\ word_count <= 300 THEN <<80, "acceptable_long">>
            ELSE IF word_count < 100 THEN <<50, "too_short">>
            ELSE <<50, "too_long">>
    IN Return([score |-> band[1], word_count |-> word_count, status |-> band[2],
               target_range |-> "150-250 words"])

-----------------------------------------------------------------------------
(* response_validator.py: uniqueness of a response among its siblings.
   A similarity before rounding is the fraction num/den; a reported value is
   a whole number of thousandths (1.0 is 1000). *)

Range(s) == {s[i] : i \in 1..Len(s)}

stop_words ==
    {
    <<"t","h","e">>, <<"a">>, <<"a","n">>, <<"a","n","d">>,
    <<"o","r">>, <<"b","u","t">>, <<"i","n">>, <<"o","n">>,
    <<"a","t">>, <<"t","o">>, <<"f","o","r">>, <<"o","f">>,
    <<"w","i","t","h">>, <<"b","y">>, <<"f","r","o","m">>, <<"a","s">>,
    <<"i","s">>, <<"w","a","s">>, <<"a","r","e">>, <<"w","e","r","e">>,
    <<"b","e">>, <<"b","e","e","n">>, <<"b","e","i","n","g">>, <<"h","a","v","e">>,
    <<"h","a","s">>, <<"h","a","d">>, <<"d","o">>, <<"d","o","e","s">>,
    <<"d","i","d">>, <<"w","i","l","l">>, <<"w","o","u","l","d">>, <<"c","o","u","l","d">>,
    <<"s","h","o","u","l","d">>, <<"m","a","y">>, <<"m","i","g","h","t">>, <<"c","a","n">>,
    <<"t","h","i","s">>, <<"t","h","a","t">>, <<"t","h","e","s","e">>, <<"t","h","o","s","e">>,
    <<"i">>, <<"y","o","u">>, <<"h","e">>, <<"s","h","e">>,
    <<"i","t">>, <<"w","e">>, <<"t","h","e","y">>
    }

\* the word set with the stop words left in
words_with_stop_words(text) ==
    {<<text.type, word>> : word \in Range(SplitOf([text EXCEPT !.val = LowerOf(text)]))}

\* set(text.lower().split()) - stop_words.  A token carries the type of its
\* text: a bytes token is never equal to a str stop word or a str token.
words_without_stop_words(text) ==
    {<<text.type, word>> : word \in Range(SplitOf([text EXCEPT !.val = LowerOf(text)]))}
    \ {<<"str", word>> : word \in stop_words}

Fraction(n, d) == [num |-> n, den |-> d]

\* a < b for two fractions with positive denominators
FractionLess(a, b) == a.num * b.den < b.num * a.den

RECURSIVE Pow2(_)
Pow2(k) == IF k = 0 THEN 1 ELSE 2 * Pow2(k - 1)

\* the position after the binary point of the first 1 bit of r/den, counted
\* from position i on (0 < r < den)
RECURSIVE LeadingBit(_, _, _)
LeadingBit(r, den, i) == IF 2 * r >= den THEN i ELSE LeadingBit(2 * r, den, i + 1)

\* long division by den up to bit position last.  at is the division after
\* some bits: the position i of the next bit, the remainder rem that is left,
\* and the last `width` bits produced so far, as the number window.
RECURSIVE LongDivision(_, _, _, _)
LongDivision(at, den, last, width) ==
    IF at.i > last THEN at
    ELSE LongDivision([i |-> at.i + 1,
                       rem |-> (2 * at.rem) % den,
                       window |-> (2 * at.window + (2 * at.rem) \div den) % Pow2(width)],
                      den, last, width)

\* num / den for 0 < num < den: the quotient is a float, the double nearest to
\* the exact quotient (ties to the even mantissa).  Of that double: the
\* position of its first 1 bit, its bits from position 53 to its last bit
\* (position lead + 52) as a number, and whether it lies above (1), below
\* (-1) or on (0) the exact quotient.
float_division(num, den) ==
    LET lead == LeadingBit(num, den, 1)
        cut == LongDivision([i |-> 1, rem |-> num, window |-> 0], den, lead + 52, lead)
        up == 2 * cut.rem > den \/ (2 * cut.rem = den /\ cut.window % 2 = 1)
    IN [lead |-> lead,
        window |-> IF up THEN (cut.window + 1) % Pow2(lead) ELSE cut.window,
        error |-> IF cut.rem = 0 THEN 0 ELSE IF up THEN 1 ELSE -1]

\* q or q + 1 for a float that lies above (sign 1), below (-1) or on (0) the
\* middle of the two: round() of an exact middle goes to the even one
TieTo(q, sign) ==
    IF sign > 0 THEN q + 1
    ELSE IF sign < 0 THEN q
    ELSE IF q % 2 = 0 THEN q ELSE q + 1

\* round(num / den, 3) in thousandths.  When the exact quotient is halfway
\* between two thousandths, the float that is rounded lies above or below it
\* and decides; otherwise the float rounds as the exact quotient does.
Round3(num, den) ==
    LET q == (1000 * num) \div den
        r == (1000 * num) % den
    IN IF 2 * r > den THEN q + 1
       ELSE IF 2 * r < den THEN q
       ELSE TieTo(q, float_division(num, den).error)

\* whether 1.0 - x lies above (1), below (-1) or on (0) 1 - num/den, for the
\* float x = num / den.  From 0.5 on the subtraction is exact.  Below 0.5 the
\* difference is rounded to 53 bits after the binary point: the bits of x
\* after position 53 decide the direction, and an exact middle goes to the
\* even bit 53.
complement_error(num, den) ==
    LET x == float_division(num, den)
        m == Pow2(x.lead - 1)
        low == (m - (x.window % m)) % m
        bit53 == ((x.window \div m) + 1) % 2
        rounding == IF low = 0 THEN 0
                    ELSE IF 2 * low > m THEN 1
                    ELSE IF 2 * low < m THEN -1
                    ELSE IF bit53 = 1 THEN 1 ELSE -1
    IN IF 2 * num >= den THEN -x.error
       ELSE IF rounding # 0 THEN rounding ELSE -x.error

\* round(1.0 - num / den, 3) in thousandths
Round3OfComplement(num, den) ==
    IF num = 0 THEN 1000
    ELSE IF num = den THEN 0
    ELSE LET q == (1000 * (den - num)) \div den
             r == (1000 * (den - num)) % den
         IN IF 2 * r > den THEN q + 1
            ELSE IF 2 * r < den THEN q
            ELSE TieTo(q, complement_error(num, den))

\* intersection / union of the two word sets
jaccard_over_first(words1, words2) ==
    Fraction(Cardinality(words1 \cap words2), Cardinality(words1))
jaccard(words1, words2) ==
    Fraction(Cardinality(words1 \cap words2), Cardinality(words1 \cup words2))

\* the second text compared as written, without lower-casing
calculate_text_similarity_second_as_written(text1, text2) ==
    IF text1.type \notin {"str", "bytes"} \/ text2.type \notin {"str", "bytes"}
    THEN Raise("AttributeError")
    ELSE
    LET words1 == words_without_stop_words(text1)
        words2 == {<<text2.type, word>> : word \in Range(SplitOf(text2))}
                  \ {<<"str", word>> : word \in stop_words}
    IN IF words1 = {} \/ words2 = {}
       THEN Return(Fraction(0, 1))
       ELSE Return(jaccard(words1, words2))

\* ResponseValidator._calculate_text_similarity
calculate_text_similarity(text1, text2) ==
    IF text1.type \notin {"str", "bytes"} \/ text2.type \notin {"str", "bytes"}
    THEN Raise("AttributeError")              \* no attribute 'lower'
    ELSE
    LET words1 == words_without_stop_words(text1)
        words2 == words_without_stop_words(text2)
    IN IF words1 = {} \/ words2 = {}
       THEN Return(Fraction(0, 1))
       ELSE Return(jaccard(words1, words2))

\* max(similarities)
most_similar_of(similarities) ==
    CHOOSE s \in Range(similarities) :
        \A t \in Range(similarities) : ~FractionLess(s, t)

\* is_unique = most_similar < threshold, the threshold in thousandths
is_unique_inclusive(most_similar, thr) == most_similar.num * 1000 <= thr * most_similar.den
is_unique_verdict(most_similar, thr) == most_similar.num * 1000 < thr * most_similar.den

\* ResponseValidator.calculate_uniqueness_score
calculate_uniqueness_score(resp, others, thr) ==
    IF others = <<>>
    THEN Return([is_unique |-> TRUE, uniqueness_score |-> 1000,
                 most_similar_score |-> 0, similarities |-> <<>>])
    ELSE
    LET outcomes == [i \in 1..Len(others) |-> calculate_text_similarity(resp, others[i])]
    IN IF \E i \in 1..Len(others) : outcomes[i].kind = "raise"
       THEN Raise("AttributeError")
       ELSE
       LET similarities == [i \in 1..Len(others) |-> outcomes[i].value]
           most_similar == most_similar_of(similarities)
       IN Return([is_unique |-> is_unique_verdict(most_similar, thr),
                  uniqueness_score |-> Round3OfComplement(most_similar.num, most_similar.den),
                  most_similar_score |-> Round3(most_similar.num, most_similar.den),
                  similarities |-> [i \in 1..Len(others) |->
                                       Round3(similarities[i].num, similarities[i].den)]])

-----------------------------------------------------------------------------
(* evaluators.py: consistency of a response with the role of its persona *)

role_keywords ==
    <<
      [category |-> <<"t","r","a","d","i","n","g">>,
       keywords |-> <<<<"t","r","a","d","i","n","g">>, <<"t","r","a","d","e","r">>, <<"m","a","r","k","e","t">>, <<"p","r","o","v","i","d","e","r">>, <<"u","p","t","i","m","e">>, <<"s","l","a">>>>],
      [category |-> <<"p","r","o","d","u","c","t">>,
       keywords |-> <<<<"p","r","o","d","u","c","t">>, <<"u","s","e","r">>, <<"f","e","a","t","u","r","e">>, <<"u","x">>, <<"e","x","p","e","r","i","e","n","c","e">>, <<"i","n","t","e","r","f","a","c","e">>>>],
      [category |-> <<"a","n","a","l","y","s","t">>,
       keywords |-> <<<<"d","a","t","a">>, <<"a","n","a","l","y","s","i","s">>, <<"m","e","t","r","i","c","s">>, <<"k","p","i">>, <<"r","e","p","o","r","t">>, <<"i","n","s","i","g","h","t">>>>],
      [category |-> <<"r","i","s","k">>,
       keywords |-> <<<<"r","i","s","k">>, <<"c","o","m","p","l","i","a","n","c","e">>, <<"m","a","r","g","i","n">>, <<"l","i","a","b","i","l","i","t","y">>, <<"e","x","p","o","s","u","r","e">>>>],
      [category |-> <<"c","o","m","m","e","r","c","i","a","l">>,
       keywords |-> <<<<"r","o","i">>, <<"r","e","v","e","n","u","e">>, <<"c","o","s","t">>, <<"b","u","s","i","n","e","s","s">>, <<"s","t","r","a","t","e","g","y">>, <<"v","a","l","u","e">>>>],
      [category |-> <<"s","u","p","p","o","r","t">>,
       keywords |-> <<<<"c","u","s","t","o","m","e","r">>, <<"s","u","p","p","o","r","t">>, <<"i","n","c","i","d","e","n","t">>, <<"t","i","c","k","e","t">>, <<"r","e","s","p","o","n","s","e">>>>]
    >>

\* the keywords of every category whose name occurs in the role, in order
RECURSIVE relevant_keywords_from(_, _)
relevant_keywords_from(role_lower, i) ==
    IF i > Len(role_keywords) THEN <<>>
    ELSE (IF Contains(role_lower, role_keywords[i].category)
          THEN role_keywords[i].keywords ELSE <<>>)
         \o relevant_keywords_from(role_lower, i + 1)

\* score and status of a match ratio matches/total
consistency_band_strict(matches, total) ==
    IF 10 * matches > 3 * total THEN <<100, "strong_consistency">>
    ELSE IF 10 * matches > 2 * total THEN <<80, "good_consistency">>
    ELSE IF 10 * matches > total THEN <<60, "moderate_consistency">>
    ELSE <<40, "weak_consistency">>
consistency_band(matches, total) ==
    IF 10 * matches >= 3 * total THEN <<100, "strong_consistency">>
    ELSE IF 10 * matches >= 2 * total THEN <<80, "good_consistency">>
    ELSE IF 10 * matches >= total THEN <<60, "moderate_consistency">>
    ELSE <<40, "weak_consistency">>

\* the result for a role that names no category
unknown_role_scored_weak == [score |-> 40, status |-> "unknown_role", matches |-> 0]
unknown_role_result == [score |-> 70, status |-> "unknown_role", matches |-> 0]

\* evaluate_role_consistency
evaluate_role_consistency(resp, role) ==
    IF resp.type \notin {"str", "bytes"} \/ role.type \notin {"str", "bytes"}
    THEN Raise("AttributeError")              \* no attribute 'lower'
    ELSE IF role.type = "bytes"
    THEN Raise("TypeError")                   \* str in bytes
    ELSE
    LET response_lower == lower(resp.val)
        role_lower == lower(role.val)
        relevant_keywords == relevant_keywords_from(role_lower, 1)
    IN IF relevant_keywords = <<>>
       THEN Return(unknown_role_result)
       ELSE IF resp.type = "bytes"
       THEN Raise("TypeError")                \* str in bytes
       ELSE
       LET matches == Cardinality({i \in 1..Len(relevant_keywords) :
                                       Contains(response_lower, relevant_keywords[i])})
           band == consistency_band(matches, Len(relevant_keywords))
       IN Return([score |-> band[1], matches |-> matches,
                  total_keywords |-> Len(relevant_keywords),
                  match_ratio |-> Fraction(matches, Len(relevant_keywords)),
                  status |-> band[2]])

-----------------------------------------------------------------------------
(* evaluators.py: empathy dimensions and specificity of a response *)

\* any(word in text for word in words)
AnyIn(words, text) == \E i \in 1..Len(words) : Contains(text, words[i])

empathy_keywords ==
    [thinks |-> <<<<"t","h","i","n","k">>, <<"b","e","l","i","e","v","e">>, <<"c","o","n","s","i","d","e","r">>, <<"a","s","s","e","s","s">>>>,
     feels |-> <<<<"f","e","e","l">>, <<"c","o","n","c","e","r","n">>, <<"w","o","r","r","y">>, <<"e","x","c","i","t","e","d">>, <<"f","r","u","s","t","r","a","t","e","d">>>>,
     sees |-> <<<<"s","e","e">>, <<"n","o","t","i","c","e">>, <<"o","b","s","e","r","v","e">>, <<"e","x","p","e","r","i","e","n","c","e">>>>,
     says_does |-> <<<<"w","o","u","l","d">>, <<"n","e","e","d"," ","t","o">>, <<"s","h","o","u","l","d">>, <<"m","u","s","t">>, <<"w","i","l","l">>>>]

\* sum(flags.values()), sum(list of bool)
CountTrue(flags) == Cardinality({k \in DOMAIN flags : flags[k]})

\* three dimensions scored as moderate
empathy_band_four_only(dimensions_present) ==
    IF dimensions_present >= 4 THEN <<100, "strong_empathy">>
    ELSE IF dimensions_present >= 2 THEN <<80, "moderate_empathy">>
    ELSE IF dimensions_present = 1 THEN <<60, "weak_empathy">>
    ELSE <<40, "no_empathy_markers">>
\* score and status of a number of dimensions
empathy_band(dimensions_present) ==
    IF dimensions_present >= 3 THEN <<100, "strong_empathy">>
    ELSE IF dimensions_present = 2 THEN <<80, "moderate_empathy">>
    ELSE IF dimensions_present = 1 THEN <<60, "weak_empathy">>
    ELSE <<40, "no_empathy_markers">>

\* evaluate_empathy_compliance
evaluate_empathy_compliance(resp) ==
    IF resp.type \notin {"str", "bytes"}
    THEN Raise("AttributeError")              \* no attribute 'lower'
    ELSE IF resp.type = "bytes"
    THEN Raise("TypeError")                   \* str in bytes
    ELSE
    LET response_lower == lower(resp.val)
        dimensions == [d \in DOMAIN empathy_keywords |-> AnyIn(empathy_keywords[d], response_lower)]
        dimensions_present == CountTrue(dimensions)
        band == empathy_band(dimensions_present)
    IN Return([score |-> band[1], dimensions_present |-> dimensions_present,
               dimensions |-> dimensions, status |-> band[2]])

\* the markers looked for without their leading space
example_markers_unspaced == <<<<"f","o","r"," ","e","x","a","m","p","l","e">>, <<"e",".","g",".">>, <<"s","u","c","h"," ","a","s">>>>
example_markers == <<<<" ","f","o","r"," ","e","x","a","m","p","l","e">>, <<" ","e",".","g",".">>, <<" ","s","u","c","h"," ","a","s">>>>
capitalized_exceptions == {<<"I">>, <<"T","h","e">>, <<"A">>, <<"A","n">>}
time_references == <<<<"y","e","s","t","e","r","d","a","y">>, <<"l","a","s","t"," ","w","e","e","k">>, <<"l","a","s","t"," ","m","o","n","t","h">>, <<"r","e","c","e","n","t","l","y">>, <<"c","u","r","r","e","n","t","l","y">>>>
quotation_marks == {"\"", "'"}

\* word[0].isupper() and word not in ["I", "The", "A", "An"]
is_concrete_noun(word) == word[1] \in DOMAIN UpperToLower /\ word \notin capitalized_exceptions

\* no indicator scored as 0.5
specificity_band_floor_half(specificity_count) ==
    IF specificity_count >= 3 THEN <<100, "highly_specific">>
    ELSE IF specificity_count = 2 THEN <<80, "moderately_specific">>
    ELSE IF specificity_count = 1 THEN <<60, "somewhat_specific">>
    ELSE <<50, "generic">>
\* score and status of a number of indicators
specificity_band(specificity_count) ==
    IF specificity_count >= 3 THEN <<100, "highly_specific">>
    ELSE IF specificity_count = 2 THEN <<80, "moderately_specific">>
    ELSE IF specificity_count = 1 THEN <<60, "somewhat_specific">>
    ELSE <<40, "generic">>

\* evaluate_specificity
evaluate_specificity(resp) ==
    IF resp.type \notin {"str", "bytes"}
    THEN Raise("AttributeError")              \* no attribute 'lower'
    ELSE IF resp.type = "bytes"
    THEN (IF resp.val = <<>> THEN Raise("TypeError")     \* str in bytes
          ELSE Raise("AttributeError"))                  \* int has no isdigit
    ELSE
    LET response_lower == lower(resp.val)
        words == split(resp.val)
        specific_indicators ==
            <<\E i \in 1..Len(resp.val) : resp.val[i] \in isdigit_chars,
              AnyIn(example_markers, response_lower),
              \E i \in 1..Len(words) : is_concrete_noun(words[i]),
              AnyIn(time_references, response_lower),
              \E i \in 1..Len(resp.val) : resp.val[i] \in quotation_marks>>
        specificity_count == CountTrue(specific_indicators)
        band == specificity_band(specificity_count)
    IN Return([score |-> band[1], specificity_count |-> specificity_count,
               indicators |-> specific_indicators, status |-> band[2]])

-----------------------------------------------------------------------------
(* Inputs *)

MaxTerms == 2
MaxPhrases == 1

\* a text of n one-letter words separated by single spaces
Filler(n) ==
    [i \in 1..(IF n = 0 THEN 0 ELSE 2 * n - 1) |-> IF i % 2 = 1 THEN "x" ELSE " "] \o <<>>

\* two texts joined by one space (nothing is added to an empty text)
JoinSp(a, b) == IF a = <<>> THEN b ELSE IF b = <<>> THEN a ELSE a \o <<" ">> \o b

Fragments ==
    << <<"$","5","K">>, <<"B","u","d","g","e","t">>, <<"G","G","R">>,
       <<"m","a","r","g","i","n">>, <<"H","o","n","e","s","t","l","y">> >>

RECURSIVE JoinFragments(_, _)
JoinFragments(chosen, i) ==
    IF i > Len(Fragments) THEN <<>>
    ELSE IF i \in chosen THEN JoinSp(Fragments[i], JoinFragments(chosen, i + 1))
         ELSE JoinFragments(chosen, i + 1)

ExtraTails ==
    { <<"7","%">>, <<"3"," ","P","e","o","p","l","e">>, <<"3","\t","p","e","o","p","l","e">>,
      <<"1","2"," ","y","e","a","r","s">>, <<"2"," ","h","o","u","r">>, <<"$",",">>,
      <<"3","\r","p","e","o","p","l","e">>, <<"T","E","A","M"," ","É","T","É">>,
      <<"n","e","e","d"," ","t","o"," ","j","u","s","t","i","f","y">> }

Tails == {JoinFragments(c, 1) : c \in SUBSET (1..Len(Fragments))} \cup ExtraTails

\* every tail is tried on a short text, an in-range text outside the optimal
\* window and an in-range text inside it; the word counts on each side of
\* every threshold are tried as plain filler
FillerCounts == {0, 160, 190}
BoundaryWordCounts == {149, 150, 174, 175, 225, 226, 250, 251}

StrResponses ==
    {PyStr(JoinSp(Filler(n), tl)) : n \in FillerCounts, tl \in Tails}
    \cup {PyStr(Filler(n)) : n \in BoundaryWordCounts}

NonStrResponses ==
    {PyNone, PyList(<<>>), PyBytes(<<"h","i"," ","y","o","u">>),
     PyBytes(<<"h","i","\r","y","o","u","","a","l","l">>)}

Responses == StrResponses \cup NonStrResponses

TermVocabulary == {PyStr(<<"g","g","r">>), PyStr(<<"M","a","r","g","i","n">>)}
PhraseVocabulary == {PyStr(<<"h","o","n","e","s","t","l","y">>)}

SeqsUpTo(S, n) == UNION {[1..k -> S] : k \in 0..n}

Profiles ==
    {[domain_expertise |-> [terms_used_frequently |-> ts],
      communication_style |-> [typical_phrases |-> ps]] :
        ts \in SeqsUpTo(TermVocabulary, MaxTerms)
                 \cup {<<PyNone>>, <<PyBytes(<<"g","g","r">>)>>}, ps \in SeqsUpTo(PhraseVocabulary, MaxPhrases)}

-----------------------------------------------------------------------------
(* langchain_personas.py: the persona agents and their manager *)

\* LangChainPersonaManager.personas after initialize_personas: the profile of
\* every registered agent.  The second profile lists a null among its terms.
personas ==
    [id \in {"alex", "nina"} |->
        [communication_patterns |->
            [domain_terminology |->
                [terms_i_use_frequently |->
                    IF id = "alex"
                    THEN <<PyStr(<<"g","g","r">>), PyStr(<<"M","a","r","g","i","n">>)>>
                    ELSE <<PyNone>>],
             baseline_style |->
                [typical_openers |-> <<PyStr(<<"h","o","n","e","s","t","l","y">>)>>,
                 typical_closers |-> <<>>]]]]

\* enhanced_profile_loader.prepare_for_validator, the fields the validator reads
prepare_for_validator(pdata) ==
    [domain_expertise |->
        [terms_used_frequently |->
            pdata.communication_patterns.domain_terminology.terms_i_use_frequently],
     communication_style |->
        [typical_phrases |->
            pdata.communication_patterns.baseline_style.typical_openers
            \o pdata.communication_patterns.baseline_style.typical_closers]]

user_message == PyStr(<<"Q">>)

\* the texts the language model may answer with, and the message of its error
ModelReplies ==
    {PyStr(JoinSp(Filler(160), JoinFragments({1, 2, 3, 4, 5}, 1))),
     PyStr(<<"o","k"," ","f","i","n","e">>)}
ModelError == <<"t","i","m","e","o","u","t">>

\* how _save_memory_to_db can end: the rows are committed; the commit raises
\* and the session is rolled back; or the rollback in the except block raises
\* too, and its error leaves _save_memory_to_db
SaveOutcomes == {"committed", "rolled_back", "rollback_raised"}
RollbackError == <<"r","o","l","l","b","a","c","k"," ","f","a","i","l","e","d">>

\* the reply of think_and_respond when its own body raised e
thinking_apology(e) ==
    PyStr(<<
          "I"," ","a","p","o","l","o","g","i","z","e",","," ","b","u","t",
          " ","I","'","m"," ","h","a","v","i","n","g"," ","t","r","o","u",
          "b","l","e"," ","p","r","o","c","e","s","s","i","n","g"," ","y",
          "o","u","r"," ","r","e","q","u","e","s","t"," ","r","i","g","h",
          "t"," ","n","o","w","."," ","E","r","r","o","r",":"," " >> \o e)

\* the reply get_all_responses substitutes when awaiting a task raised e
manager_apology(e) ==
    PyStr(<<
          "I"," ","a","p","o","l","o","g","i","z","e",","," ","b","u","t",
          " ","I","'","m"," ","e","x","p","e","r","i","e","n","c","i","n",
          "g"," ","t","e","c","h","n","i","c","a","l"," ","d","i","f","f",
          "i","c","u","l","t","i","e","s",":"," " >> \o e)

HumanMessage(content) == [type |-> "human", content |-> content]
AIMessage(content) == [type |-> "ai", content |-> content]

\* the two rows _save_memory_to_db commits for one exchange
MemoryRows(id, question, answer) ==
    <<[persona_id |-> id, message_type |-> "human", content |-> question],
      [persona_id |-> id, message_type |-> "ai", content |-> answer]>>

LogEvent(level, id, event) == [level |-> level, persona_id |-> id, event |-> event]

\* the log events of the validation step of think_and_respond: the warning
\* of the validator itself for a failed response, then the event of the agent
validation_log(id, validation) ==
    IF validation.kind = "raise"
    THEN <<LogEvent("error", id, "validation error")>>
    ELSE IF ~validation.value.passed
    THEN <<LogEvent("warning", "validator", "quality check failed"),
           LogEvent("warning", id, "response quality")>>
    ELSE <<LogEvent("info", id, "response quality")>>

\* the log events of _save_memory_to_db and, when it raises, of the except
\* block of think_and_respond
save_log(id, saved) ==
    IF saved = "committed" THEN <<>>
    ELSE IF saved = "rolled_back" THEN <<LogEvent("error", id, "saving memory")>>
    ELSE <<LogEvent("error", id, "saving memory"), LogEvent("error", id, "thinking process")>>

\* what think_and_respond hands back and stores for a reply of the model
delivered_when_passed(text, validation) ==
    IF validation.kind = "return" /\ validation.value.passed THEN text ELSE thinking_apology(<<>>)
delivered(text, validation) == text

MaxActive == 3

\* the persona ids a turn may name; the last one is not registered
RequestedIds == {"alex", "nina", "ghost"}

\* before the turn the first agent has had one exchange, which was saved,
\* and the second agent none
EarlierExchange == <<HumanMessage(PyStr(<<"h","i">>)), AIMessage(PyStr(<<"y","o">>))>>
InitialMemory == [id \in DOMAIN personas |-> IF id = "alex" THEN EarlierExchange ELSE <<>>]
InitialRows == MemoryRows("alex", EarlierExchange[1].content, EarlierExchange[2].content)

\* the variables of a turn while no turn is made
NoTurn ==
    /\ active_persona_ids = <<>>
    /\ tasks = <<>>
    /\ responses = <<>>
    /\ memory = [id \in DOMAIN personas |-> <<>>]
    /\ db = <<>>
    /\ log = <<>>
    /\ calls = <<>>
    /\ max_in_flight = 0

\* the application state while no call is made on the application
NoManager ==
    /\ langchain_manager = PyNone
    /\ suspended = {}
    /\ running = <<>>
    /\ events = <<>>

\* the inputs of the similarity and role evaluators while they are not called
NoScorerInput ==
    /\ other_responses = <<>>
    /\ threshold = 700
    /\ persona_role = PyNone

-----------------------------------------------------------------------------
(* The state machine: one call sequence on one response and profile *)

Init ==
    /\ response \in Responses
    /\ persona_data \in Profiles
    /\ pc = "idle"
    /\ result = NotCalled
    /\ suggestions = NotCalled
    /\ seen = {}
    /\ NoScorerInput
    /\ NoTurn
    /\ NoManager

ValidateResponseQuality ==
    /\ pc = "idle"
    /\ result' = validate_response_quality(response, persona_data)
    /\ pc' = "validated"
    /\ seen' = IF result'.kind = "return"
               THEN seen \cup {<<result'.value.score_breakdown.word_count_in_range,
                                 result'.value.score_breakdown.word_count_optimal>>}
               ELSE seen
    /\ UNCHANGED <<response, persona_data, suggestions, scorer_vars, turn_vars, manager_vars>>

GetImprovementSuggestions ==
    /\ pc = "validated"
    /\ result.kind = "return"
    /\ suggestions' = get_improvement_suggestions(result.value, persona_data)
    /\ pc' = "suggested"
    /\ UNCHANGED <<response, persona_data, result, seen, scorer_vars, turn_vars, manager_vars>>

EvaluateResponseLength ==
    /\ pc = "idle"
    /\ result' = evaluate_response_length(response)
    /\ pc' = "length"
    /\ UNCHANGED <<response, persona_data, suggestions, seen, scorer_vars, turn_vars, manager_vars>>

Next ==
    \/ ValidateResponseQuality
    \/ GetImprovementSuggestions
    \/ EvaluateResponseLength

Spec == Init /\ [][Next]_vars

-----------------------------------------------------------------------------
(* A caller that validates responses of every word count from 0 to
   MaxWordCount, one word longer each time *)

MaxWordCount == 300

SweepProfiles ==
    {[domain_expertise |-> [terms_used_frequently |-> ts],
      communication_style |-> [typical_phrases |-> ps]] :
        ts \in {<<>>, <<PyStr(<<"g","g","r">>), PyStr(<<"x">>)>>},
        ps \in {<<>>, <<PyStr(<<"h","o","n","e","s","t","l","y">>)>>}}

SweepInit ==
    /\ response = PyStr(<<>>)
    /\ persona_data \in SweepProfiles
    /\ pc = "idle"
    /\ result = NotCalled
    /\ suggestions = NotCalled
    /\ seen = {}
    /\ NoScorerInput
    /\ NoTurn
    /\ NoManager

NextWordCount ==
    /\ pc = "validated"
    /\ result.kind = "return"
    /\ result.value.word_count < MaxWordCount
    /\ response' = PyStr(JoinSp(response.val, <<"x">>))
    /\ pc' = "idle"
    /\ result' = NotCalled
    /\ UNCHANGED <<persona_data, suggestions, seen, scorer_vars, turn_vars, manager_vars>>

SweepNext ==
    \/ ValidateResponseQuality
    \/ NextWordCount

SweepSpec == SweepInit /\ [][SweepNext]_vars

-----------------------------------------------------------------------------
(* One turn of LangChainPersonaManager.get_all_responses.  The only place a
   coroutine of the turn can be suspended is the model call of
   think_and_respond; everything between two suspensions is one step. *)

\* the ids of a list that are registered, in order
RegisteredOf_once(ids) ==
    LET FirstRegistered(k) == /\ ids[k] \in DOMAIN personas
                              /\ \A j \in 1..(k - 1) : ids[j] # ids[k]
        Kept == {k \in DOMAIN ids : FirstRegistered(k)}
        Nth[n \in 0..Len(ids)] ==
            IF n = 0 THEN 0 ELSE CHOOSE k \in Kept : k > Nth[n - 1] /\ \A j \in Kept : j > Nth[n - 1] => k <= j
    IN [n \in 1..Cardinality(Kept) |-> ids[Nth[n]]]
RegisteredOf(ids) ==
    LET IsRegistered(id) == id \in DOMAIN personas IN SelectSeq(ids, IsRegistered)

InFlight(ts) == Cardinality({i \in 1..Len(ts) : ts[i].state = "in_flight"})

\* the task the loop `for persona_id, task in tasks` is at
CurrentTask == Len(responses) + 1

TurnInit ==
    /\ response = PyStr(<<>>)
    /\ persona_data = prepare_for_validator(personas["alex"])
    /\ pc = "turn_idle"
    /\ result = NotCalled
    /\ suggestions = NotCalled
    /\ seen = {}
    /\ NoScorerInput
    /\ active_persona_ids \in SeqsUpTo(RequestedIds, MaxActive)
    /\ tasks = <<>>
    /\ responses = <<>>
    /\ memory = InitialMemory
    /\ db = InitialRows
    /\ log = <<>>
    /\ calls = <<>>
    /\ max_in_flight = 0
    /\ NoManager

\* get_all_responses up to its first await: a coroutine object is made for
\* every requested id that is registered; none of them has started
CreateTasks ==
    /\ pc = "turn_idle"
    /\ tasks' = [i \in 1..Len(RegisteredOf(active_persona_ids)) |->
                    [persona_id |-> RegisteredOf(active_persona_ids)[i], state |-> "created"]]
    /\ pc' = "turn_running"
    /\ UNCHANGED <<response, persona_data, result, suggestions, seen, scorer_vars,
                   active_persona_ids, responses, memory, db, log, calls, max_in_flight, manager_vars>>

\* `await task`: the coroutine of the current task starts and runs
\* think_and_respond up to `await self.llm.ainvoke(messages)`
AwaitTask ==
    /\ pc = "turn_running"
    /\ CurrentTask <= Len(tasks)
    /\ tasks[CurrentTask].state = "created"
    /\ tasks' = [tasks EXCEPT ![CurrentTask].state = "in_flight"]
    /\ max_in_flight' = IF InFlight(tasks') > max_in_flight
                        THEN InFlight(tasks') ELSE max_in_flight
    /\ UNCHANGED <<response, persona_data, pc, result, suggestions, seen, scorer_vars,
                   active_persona_ids, responses, memory, db, log, calls, manager_vars>>

\* validator.validate_response_quality(response, validator_data) for every
\* agent and every text its model may answer with
validations ==
    [id \in DOMAIN personas |->
        [text \in ModelReplies |->
            validate_response_quality(text, prepare_for_validator(personas[id]))]]

\* the model call of the current task returns a text: think_and_respond
\* validates it, adds the exchange to the chat memory, saves it and returns
\* the text; when saving raises it returns its apology instead, with the
\* exchange already in the chat memory.  get_all_responses appends the entry
\* of the persona.
ModelReturns ==
    /\ pc = "turn_running"
    /\ CurrentTask <= Len(tasks)
    /\ tasks[CurrentTask].state = "in_flight"
    /\ \E text \in ModelReplies :
        LET id == tasks[CurrentTask].persona_id
            validation == validations[id][text]
            answer == delivered(text, validation)
            checked == [fn |-> "validate_response_quality", persona_id |-> id,
                        task |-> CurrentTask, response |-> text, outcome |-> validation]
            checked_log == log \o validation_log(id, validation)
        IN \E saved \in SaveOutcomes :
           /\ calls' = Append(calls, checked @@ [saved |-> saved])
           /\ memory' = [memory EXCEPT ![id] = @ \o <<HumanMessage(user_message), AIMessage(answer)>>]
           /\ db' = IF saved = "committed" THEN db \o MemoryRows(id, user_message, answer) ELSE db
           /\ log' = checked_log \o save_log(id, saved)
           /\ responses' = Append(responses,
                                  [persona_id |-> id,
                                   response |-> IF saved = "rollback_raised"
                                                THEN thinking_apology(RollbackError)
                                                ELSE answer,
                                   system |-> "langchain"])
    /\ tasks' = [tasks EXCEPT ![CurrentTask].state = "done"]
    /\ UNCHANGED <<response, persona_data, pc, result, suggestions, seen, scorer_vars,
                   active_persona_ids, max_in_flight, manager_vars>>

\* the model call of the current task raises: think_and_respond logs the
\* error and returns its apology, which get_all_responses appends as the
\* response of the persona
ModelRaises_after_user_message ==
    /\ pc = "turn_running"
    /\ CurrentTask <= Len(tasks)
    /\ tasks[CurrentTask].state = "in_flight"
    /\ LET id == tasks[CurrentTask].persona_id
       IN /\ log' = Append(log, LogEvent("error", id, "thinking process"))
          /\ memory' = [memory EXCEPT ![id] = Append(@, HumanMessage(user_message))]
          /\ responses' = Append(responses, [persona_id |-> id,
                                             response |-> thinking_apology(ModelError),
                                             system |-> "langchain"])
    /\ tasks' = [tasks EXCEPT ![CurrentTask].state = "done"]
    /\ UNCHANGED <<response, persona_data, pc, result, suggestions, seen, scorer_vars,
                   active_persona_ids, db, calls, max_in_flight, manager_vars>>
ModelRaises ==
    /\ pc = "turn_running"
    /\ CurrentTask <= Len(tasks)
    /\ tasks[CurrentTask].state = "in_flight"
    /\ LET id == tasks[CurrentTask].persona_id
       IN /\ log' = Append(log, LogEvent("error", id, "thinking process"))
          /\ responses' = Append(responses, [persona_id |-> id,
                                             response |-> thinking_apology(ModelError),
                                             system |-> "langchain"])
    /\ tasks' = [tasks EXCEPT ![CurrentTask].state = "done"]
    /\ UNCHANGED <<response, persona_data, pc, result, suggestions, seen, scorer_vars,
                   active_persona_ids, memory, db, calls, max_in_flight, manager_vars>>

\* every task has been awaited: the list of entries is returned
ReturnResponses ==
    /\ pc = "turn_running"
    /\ CurrentTask > Len(tasks)
    /\ pc' = "turn_done"
    /\ log' = Append(log, LogEvent("info", "manager", "generated responses"))
    /\ UNCHANGED <<response, persona_data, result, suggestions, seen, scorer_vars,
                   active_persona_ids, tasks, responses, memory, db, calls, max_in_flight, manager_vars>>

TurnNext ==
    \/ CreateTasks
    \/ AwaitTask
    \/ ModelReturns
    \/ ModelRaises
    \/ ReturnResponses

TurnSpec == TurnInit /\ [][TurnNext]_vars

-----------------------------------------------------------------------------
(* A caller of the uniqueness scorer: one candidate, its siblings and a
   threshold *)

MaxTokens == 2
MaxSiblings == 2

ScorerVocabulary ==
    {<<"T","h","e">>, <<"G","G","R">>, <<"g","g","r">>, <<"o","d","d","s">>}

\* the words of a list joined by single spaces
RECURSIVE JoinWords(_)
JoinWords(ws) == IF ws = <<>> THEN <<>> ELSE JoinSp(ws[1], JoinWords(Tail(ws)))

\* the siblings: an empty text, a text of stop words, texts that share words
\* with the candidates, and a text with other whitespace and a comma
SiblingTexts ==
    {PyStr(<<>>),
     PyStr(<<"T","h","e">>),
     PyStr(<<"G","G","R"," ","o","d","d","s">>),
     PyStr(<<"g","g","r","\t","f","e","e","d"," "," ","i","t","\n","t","h","e",",">>)}

\* the decimal digits of a natural number
RECURSIVE Decimal(_)
Decimal(k) ==
    LET digit == <<"0", "1", "2", "3", "4", "5", "6", "7", "8", "9">>[(k % 10) + 1]
    IN IF k < 10 THEN <<digit>> ELSE Append(Decimal(k \div 10), digit)

\* "w<lo> w<lo+1> ... w<hi>"
RECURSIVE NumberedWords(_, _)
NumberedWords(lo, hi) ==
    IF lo = hi THEN <<"w">> \o Decimal(lo)
    ELSE LET mid == (lo + hi) \div 2
         IN NumberedWords(lo, mid) \o <<" ">> \o NumberedWords(mid + 1, hi)

\* a long sibling, "w1 w2 ... w80": a candidate that shares one word with it
\* has a similarity halfway between two thousandths
LongSiblingWords == 80
LongSibling == PyStr(NumberedWords(1, LongSiblingWords))

\* a sibling of 16 words: one shared word gives a similarity, 0.0625, that is
\* a float and halfway between two thousandths
ShortSibling == PyStr(NumberedWords(1, 16))

Siblings == SiblingTexts \cup {PyNone}

\* the sibling lists: every list of up to MaxSiblings of the siblings above,
\* and the lists of the two numbered siblings
SiblingLists ==
    SeqsUpTo(Siblings, MaxSiblings)
        \cup {<<LongSibling>>, <<ShortSibling>>, <<ShortSibling, LongSibling>>}

Candidates ==
    {PyStr(JoinWords(ws)) : ws \in SeqsUpTo(ScorerVocabulary, MaxTokens)}
        \cup SiblingTexts
        \cup {PyStr(<<"w", "1">>), PyStr(<<"W", "1", "\r", "w", "2", " ", "t", "h", "e", " ", "w", "3">>)}

Thresholds == {500, 700}

ScorerInit ==
    /\ response \in Candidates
    /\ other_responses \in SiblingLists
    /\ threshold \in Thresholds
    /\ persona_role = PyNone
    /\ persona_data = prepare_for_validator(personas["alex"])
    /\ pc = "idle"
    /\ result = NotCalled
    /\ suggestions = NotCalled
    /\ seen = {}
    /\ NoTurn
    /\ NoManager

CalculateUniquenessScore ==
    /\ pc = "idle"
    /\ result' = calculate_uniqueness_score(response, other_responses, threshold)
    /\ pc' = "uniqueness"
    /\ UNCHANGED <<response, persona_data, suggestions, seen, scorer_vars, turn_vars, manager_vars>>

\* the similarity of the candidate with one sibling, computed both ways round
CalculateTextSimilarity ==
    /\ pc = "idle"
    /\ \E i \in 1..Len(other_responses) :
          result' = [kind |-> "similarity", sibling |-> i,
                     forward |-> calculate_text_similarity(response, other_responses[i]),
                     backward |-> calculate_text_similarity(other_responses[i], response)]
    /\ pc' = "similarity"
    /\ UNCHANGED <<response, persona_data, suggestions, seen, scorer_vars, turn_vars, manager_vars>>

ScorerNext ==
    \/ CalculateUniquenessScore
    \/ CalculateTextSimilarity

ScorerSpec == ScorerInit /\ [][ScorerNext]_vars

-----------------------------------------------------------------------------
(* A caller of evaluate_response_length on responses of every word count from
   0 to MaxLengthWords, one word longer each time *)

MaxLengthWords == 305

\* the whitespace put before word number n + 1
SeparatorAfter(n) ==
    CASE n % 3 = 0 -> <<" ">>
      [] n % 3 = 1 -> <<"\t">>
      [] OTHER -> <<"\n", " ">>

LengthSweepInit ==
    /\ response = PyStr(<<>>)
    /\ persona_data = prepare_for_validator(personas["alex"])
    /\ pc = "idle"
    /\ result = NotCalled
    /\ suggestions = NotCalled
    /\ seen = {}
    /\ NoScorerInput
    /\ NoTurn
    /\ NoManager

NextLength ==
    /\ pc = "length"
    /\ result.kind = "return"
    /\ result.value.word_count < MaxLengthWords
    /\ response' = PyStr(IF response.val = <<>> THEN <<"x">>
                         ELSE response.val \o SeparatorAfter(result.value.word_count) \o <<"x">>)
    /\ pc' = "idle"
    /\ result' = NotCalled
    /\ UNCHANGED <<persona_data, suggestions, seen, scorer_vars, turn_vars, manager_vars>>

LengthSweepNext ==
    \/ EvaluateResponseLength
    \/ NextLength

LengthSweepSpec == LengthSweepInit /\ [][LengthSweepNext]_vars

-----------------------------------------------------------------------------
(* A caller of evaluate_role_consistency: one role and one response *)

Roles ==
    {PyStr(<<"H","e","a","d"," ","o","f"," ","T","R","A","D","I","N","G">>),
     PyStr(<<"P","r","o","d","u","c","t"," ","R","i","s","k"," ","M","a","n","a","g","e","r">>),
     PyStr(<<"R","i","s","k"," ","S","u","p","p","o","r","t"," ","L","e","a","d">>),
     PyStr(<<"r","i","s","k">>),
     PyStr(<<"T","r","a","d","e","r">>),
     PyStr(<<"C","E","O">>),
     PyStr(<<>>),
     PyNone}

\* the words a response may mention
Mentions ==
    << <<"R","i","s","k">>, <<"m","a","r","g","i","n","s">>, <<"c","o","m","p","l","i","a","n","c","e">>,
       <<"s","u","p","p","o","r","t">>, <<"t","i","c","k","e","t">>, <<"U","p","t","i","m","e">>,
       <<"p","r","o","d","u","c","t">> >>

RECURSIVE JoinMentions(_, _)
JoinMentions(chosen, i) ==
    IF i > Len(Mentions) THEN <<>>
    ELSE IF i \in chosen THEN JoinSp(Mentions[i], JoinMentions(chosen, i + 1))
         ELSE JoinMentions(chosen, i + 1)

RoleResponses == {PyStr(JoinMentions(c, 1)) : c \in SUBSET (1..Len(Mentions))}

RoleInit ==
    /\ response \in RoleResponses
    /\ persona_role \in Roles
    /\ other_responses = <<>>
    /\ threshold = 700
    /\ persona_data = prepare_for_validator(personas["alex"])
    /\ pc = "idle"
    /\ result = NotCalled
    /\ suggestions = NotCalled
    /\ seen = {}
    /\ NoTurn
    /\ NoManager

EvaluateRoleConsistency ==
    /\ pc = "idle"
    /\ result' = evaluate_role_consistency(response, persona_role)
    /\ pc' = "role"
    /\ UNCHANGED <<response, persona_data, suggestions, seen, scorer_vars, turn_vars, manager_vars>>

\* a caller that calls one evaluator directly, as the test suite does, with
\* any role: the evaluator itself does not look at whether a role is given
RoleNext ==
    \/ EvaluateRoleConsistency
    \/ EvaluateResponseLength

RoleSpec == RoleInit /\ [][RoleNext]_vars

-----------------------------------------------------------------------------
(* A caller of the evaluators on one response: the empty response with every
   profile, and responses put together from phrases the evaluators look for *)

EvaluatorPhrases ==
    << <<"I"," ","t","h","i","n","k">>, <<"w","o","r","r","y">>, <<"T","h","e">>,
       <<"n","o","t","i","c","e">>, <<"M","u","s","t">>, <<"7">>,
       <<"f","o","r"," ","e","x","a","m","p","l","e">>, <<"r","e","c","e","n","t","l","y">>,
       <<"i","t","'","s">>, <<"x","²">>, <<"É","c","o","l","e">> >>

RECURSIVE JoinChosen(_, _, _)
JoinChosen(parts, chosen, i) ==
    IF i > Len(parts) THEN <<>>
    ELSE IF i \in chosen THEN JoinSp(parts[i], JoinChosen(parts, chosen, i + 1))
         ELSE JoinChosen(parts, chosen, i + 1)

EvaluatorResponses == {PyStr(JoinChosen(EvaluatorPhrases, c, 1)) : c \in SUBSET (1..Len(EvaluatorPhrases))}

NoProfile ==
    [domain_expertise |-> [terms_used_frequently |-> <<>>],
     communication_style |-> [typical_phrases |-> <<>>]]

EvaluatorInit ==
    /\ \/ response = PyStr(<<>>) /\ persona_data \in Profiles
       \/ response \in EvaluatorResponses /\ persona_data = NoProfile
    /\ pc = "idle"
    /\ result = NotCalled
    /\ suggestions = NotCalled
    /\ seen = {}
    /\ NoScorerInput
    /\ NoTurn
    /\ NoManager

EvaluateEmpathyCompliance ==
    /\ pc = "idle"
    /\ result' = evaluate_empathy_compliance(response)
    /\ pc' = "empathy"
    /\ UNCHANGED <<response, persona_data, suggestions, seen, scorer_vars, turn_vars, manager_vars>>

EvaluateSpecificity ==
    /\ pc = "idle"
    /\ result' = evaluate_specificity(response)
    /\ pc' = "specificity"
    /\ UNCHANGED <<response, persona_data, suggestions, seen, scorer_vars, turn_vars, manager_vars>>

EvaluatorNext ==
    \/ EvaluateResponseLength
    \/ EvaluateEmpathyCompliance
    \/ EvaluateSpecificity
    \/ ValidateResponseQuality

EvaluatorSpec == EvaluatorInit /\ [][EvaluatorNext]_vars

-----------------------------------------------------------------------------
(* dependencies.py and the routes that read or replace the global manager *)

MaxRequests == 3
MaxSuspended == 1

\* a LangChainPersonaManager object: two values are the same object iff they
\* agree on who made it and on its number
Manager(origin, n) == [type |-> "LangChainPersonaManager", val |-> <<origin, n>>]

\* the manager a caller hands to set_langchain_manager
SuppliedManagers == {Manager("caller", 1)}

HTTPException(status_code) == [type |-> "HTTPException", status_code |-> status_code]

\* what db_session.close() raises when it fails
CloseError == [type |-> "SQLAlchemyError"]

\* one call: who made it, what was called, its argument and its outcome
Call(by, op, arg, outcome) == [by |-> by, op |-> op, arg |-> arg, outcome |-> outcome]

\* a call as it stands in the history: with the number of the request it was
\* made for
Event(request, call) == [request |-> request] @@ call

get_langchain_manager_lenient(global) ==
    Return(global)
get_langchain_manager(global) ==
    IF IsNone(global)
    THEN Raise(HTTPException(503))
    ELSE Return(global)

\* the value of the global after set_langchain_manager(manager)
set_langchain_manager(manager) == manager

get_or_none_langchain_manager(global) == Return(global)

\* the outcomes of LangChainPersonaManager.cleanup
CleanupOutcomes == {Return(PyNone), Raise(CloseError)}

\* the number of requests and direct calls made from outside so far,
\* answered or not
Requests ==
    Cardinality({events[k].request : k \in DOMAIN events}
                \cup {request.request : request \in suspended}
                \cup {running[k].request : k \in DOMAIN running})

\* the managers constructed by the routes so far
Constructed ==
    {events[i].arg : i \in {k \in DOMAIN events : /\ events[k].op = "set_langchain_manager"
                                                    /\ events[k].by # "caller"}} \ {PyNone}

\* LangChainPersonaManager(api_key=...): a new object
NewManager == Manager("route", Cardinality(Constructed) + 1)

\* the body of a route handler from its start to its first await or to its
\* end, as the event loop thread runs it: the calls it makes on the global and
\* on the manager, in order, and how it ends: with an answer, or (answer
\* NotCalled) waiting at an await with the manager it holds.  `name` is the
\* name its calls and its answer go under in the history, `arg` the manager
\* it found.
Body(path, name, arg, made, held, answer) ==
    [path |-> path, name |-> name, arg |-> arg, calls |-> made, held |-> held,
     answer |-> answer]

\* POST /langchain/reset: the calls it makes after it read the global, and
\* its answer
reset_without_cleanup(global, cleanup_outcome) ==
    [calls |-> <<Call("/langchain/reset", "set_langchain_manager", PyNone, Return(PyNone))>>,
     outcome |-> Return([status |-> "reset"])]
reset_langchain_system(global, cleanup_outcome) ==
    LET found == get_or_none_langchain_manager(global).value
        cleaned == IF ~IsNone(found)
                   THEN <<Call("/langchain/reset", "cleanup", found, cleanup_outcome)>>
                   ELSE <<>>
    IN IF ~IsNone(found) /\ cleanup_outcome.kind = "raise"
       THEN [calls |-> cleaned,
             outcome |-> Raise(HTTPException(500))]
       ELSE [calls |-> cleaned \o
                       <<Call("/langchain/reset", "set_langchain_manager", PyNone, Return(PyNone))>>,
             outcome |-> Return([status |-> "reset"])]

\* POST /langchain/initialize: without an API key, or when the constructor or
\* initialize_personas raises, the answer is 500 and the global is left
\* alone; otherwise the new manager is set
initialize_langchain_personas(initialized) ==
    IF initialized
    THEN [calls |-> <<Call("/langchain/initialize", "set_langchain_manager", NewManager,
                           Return(PyNone))>>,
          outcome |-> Return([status |-> "ready"])]
    ELSE [calls |-> <<>>,
          outcome |-> Raise(HTTPException(500))]

\* the routes declared with Depends(get_langchain_manager)
DependentEndpoints ==
    {"/langchain/stats", "/langchain/memory", "/langchain/conversation", "/langchain/debate"}

\* of these, the routes that declare a request body: FastAPI validates it
\* after the dependency is resolved and before the route is called
BodyDeclared == {"/langchain/debate"}

\* the dependent routes make the same call on the global: in the history,
\* the calls and the answers of any of them go under one name
DependentRoute == "manager-dependent route"

\* the answer of FastAPI to a request whose body does not validate
RequestValidationError == [type |-> "RequestValidationError", status_code |-> 422]

\* the routes that make a manager and set it when they find none
AutoInitEndpoints ==
    {"/chat", "/chat-attachments", "/debate/round", "/debate/round-with-attachments"}

\* of these, the routes that can raise before they read the global
ReadInsideTry == {"/debate/round", "/debate/round-with-attachments"}

\* the four routes go through the same steps on the global: in the history,
\* the calls and the answers of any of them go under one name
AutoInitRoute == "auto-initializing route"

\* the route body ran with the manager it held
Handled(manager) == Return([status |-> "handled", manager |-> manager])

\* a request to /chat, /chat-attachments, /debate/round or
\* /debate/round-with-attachments, up to its first await: the ways its body
\* can go.  The route reads the global; when it finds none it makes a
\* manager and sets it, unless there is no API key or making it raises.
\* Whatever raises in the route is answered with 500: before the global is
\* read (in the routes that read it inside their try block), before a manager
\* is set or after.  Otherwise the request waits at
\* `await langchain_manager.get_all_responses(...)`.
auto_initializing(path, global) ==
    LET found == get_or_none_langchain_manager(global)
        read == Call(AutoInitRoute, "get_or_none_langchain_manager", PyNone, found)
        set == Call(AutoInitRoute, "set_langchain_manager", NewManager, Return(PyNone))
        failed == Raise(HTTPException(500))
    IN (IF path \in ReadInsideTry
        THEN {Body(AutoInitRoute, AutoInitRoute, PyNone, <<>>, PyNone, failed)}
        ELSE {})
       \cup {Body(AutoInitRoute, AutoInitRoute, PyNone, <<read>>, found.value, failed)}
       \cup (IF IsNone(found.value)
             THEN {Body(AutoInitRoute, AutoInitRoute, PyNone, <<read, set>>, NewManager, failed),
                   Body(AutoInitRoute, AutoInitRoute, PyNone, <<read, set>>, NewManager, NotCalled)}
             ELSE {Body(AutoInitRoute, AutoInitRoute, PyNone, <<read>>, found.value, NotCalled)})

\* a request that waits: for the event loop thread, after its dependency
\* was resolved (its body, when the route declares one, is still to be
\* validated), or at an await of its route
Suspended(request, name, body_declared, resolved) ==
    [request |-> request, name |-> name, body_declared |-> body_declared,
     resolved |-> resolved]

AppInit ==
    /\ response = PyStr(<<>>)
    /\ persona_data = NoProfile
    /\ pc = "app_idle"
    /\ result = NotCalled
    /\ suggestions = NotCalled
    /\ seen = {}
    /\ NoScorerInput
    /\ NoTurn
    /\ NoManager

AppUnchanged == UNCHANGED <<response, persona_data, suggestions, seen, scorer_vars, turn_vars>>

\* the functions of dependencies.py called directly, as the tests do, while
\* no request is in flight
SetLangchainManager ==
    /\ running = <<>>
    /\ suspended = {}
    /\ Requests < MaxRequests
    /\ \E manager \in SuppliedManagers \cup {PyNone} :
        /\ langchain_manager' = set_langchain_manager(manager)
        /\ events' = Append(events, Event(Requests + 1,
                        Call("caller", "set_langchain_manager", manager, Return(PyNone))))
    /\ pc' = "set_langchain_manager"
    /\ result' = Return(PyNone)
    /\ UNCHANGED <<suspended, running>>
    /\ AppUnchanged

GetLangchainManager ==
    /\ running = <<>>
    /\ suspended = {}
    /\ Requests < MaxRequests
    /\ result' = get_langchain_manager(langchain_manager)
    /\ events' = Append(events, Event(Requests + 1,
                    Call("caller", "get_langchain_manager", PyNone, result')))
    /\ pc' = "get_langchain_manager"
    /\ UNCHANGED <<langchain_manager, suspended, running>>
    /\ AppUnchanged

GetOrNoneLangchainManager ==
    /\ running = <<>>
    /\ suspended = {}
    /\ Requests < MaxRequests
    /\ result' = get_or_none_langchain_manager(langchain_manager)
    /\ events' = Append(events, Event(Requests + 1,
                    Call("caller", "get_or_none_langchain_manager", PyNone, result')))
    /\ pc' = "get_or_none_langchain_manager"
    /\ UNCHANGED <<langchain_manager, suspended, running>>
    /\ AppUnchanged

\* the event loop thread makes the next call of the body `body`: the call
\* joins the history and, when it is set_langchain_manager, replaces the global
Perform(body) ==
    LET call == Head(body.calls)
    IN /\ events' = Append(events, Event(body.request, call))
       /\ langchain_manager' = IF call.op = "set_langchain_manager"
                               THEN set_langchain_manager(call.arg)
                               ELSE langchain_manager
       /\ running' = <<[body EXCEPT !.calls = Tail(body.calls)]>>

\* the event loop thread, free, starts the body of a route for a new request
\* and runs it up to its first call included
Begin(body) ==
    /\ running = <<>>
    /\ Requests < MaxRequests
    /\ IF body.calls = <<>>
       THEN /\ running' = <<[request |-> Requests + 1] @@ body>>
            /\ UNCHANGED <<langchain_manager, events>>
       ELSE Perform([request |-> Requests + 1] @@ body)
    /\ pc' = body.path
    /\ result' = NotCalled
    /\ UNCHANGED suspended
    /\ AppUnchanged

InitializeLangchainPersonas ==
    \E initialized \in BOOLEAN :
        LET route == initialize_langchain_personas(initialized)
        IN Begin(Body("/langchain/initialize", "/langchain/initialize", PyNone,
                      route.calls, PyNone, route.outcome))

ResetLangchainSystem ==
    \E cleanup_outcome \in CleanupOutcomes :
        LET route == reset_langchain_system(langchain_manager, cleanup_outcome)
        IN Begin(Body("/langchain/reset", "/langchain/reset", langchain_manager,
                      route.calls, PyNone, route.outcome))

AutoInitEndpoint ==
    \E path \in AutoInitEndpoints :
        \E body \in auto_initializing(path, langchain_manager) : Begin(body)

\* the body that is running makes its next call
RouteCalls ==
    /\ running # <<>>
    /\ running[1].calls # <<>>
    /\ Perform(running[1])
    /\ pc' = running[1].path
    /\ result' = NotCalled
    /\ UNCHANGED suspended
    /\ AppUnchanged

\* the body that is running made its calls and ends: the route returns or
\* raises, and that is the answer to the request
RouteAnswers ==
    /\ running # <<>>
    /\ running[1].calls = <<>>
    /\ running[1].answer # NotCalled
    /\ events' = Append(events, Event(running[1].request,
                    Call("caller", running[1].name, running[1].arg, running[1].answer)))
    /\ running' = <<>>
    /\ pc' = running[1].path
    /\ result' = running[1].answer
    /\ UNCHANGED <<langchain_manager, suspended>>
    /\ AppUnchanged

\* the body that is running reaches its await: the request waits with the
\* manager the route holds, and the event loop thread is free
RouteAwaits ==
    /\ running # <<>>
    /\ running[1].calls = <<>>
    /\ running[1].answer = NotCalled
    /\ suspended' = suspended \cup
            {Suspended(running[1].request, running[1].name, FALSE, Return(running[1].held))}
    /\ running' = <<>>
    /\ pc' = running[1].path
    /\ result' = NotCalled
    /\ UNCHANGED <<langchain_manager, events>>
    /\ AppUnchanged

\* a request to a route declared with Depends(get_langchain_manager): the
\* dependency is resolved in a worker thread, whatever the event loop thread
\* is doing, before the route is called.  With what the dependency returned
\* or raised the request waits for the event loop thread.
DependentEndpoint ==
    /\ Requests < MaxRequests
    /\ Cardinality(suspended) < MaxSuspended
    /\ \E path \in DependentEndpoints :
        LET dependency == get_langchain_manager(langchain_manager)
        IN /\ events' = Append(events, Event(Requests + 1,
                            Call(DependentRoute, "get_langchain_manager", PyNone, dependency)))
           /\ suspended' = suspended \cup
                    {Suspended(Requests + 1, DependentRoute, path \in BodyDeclared, dependency)}
           /\ pc' = DependentRoute
    /\ result' = NotCalled
    /\ UNCHANGED <<langchain_manager, running>>
    /\ AppUnchanged

\* the answers a request that waited can get.  The exception of its
\* dependency is its answer.  Otherwise the body of the dependent route runs,
\* or get_all_responses returns to the route, with the manager the request
\* holds, whatever the global is by now; an exception in the body is answered
\* with 500; and a body that does not validate is answered with 422 without
\* the route being called.
answers(request) ==
    IF request.resolved.kind = "raise"
    THEN {request.resolved}
    ELSE {Handled(request.resolved.value), Raise(HTTPException(500))}
         \cup (IF request.body_declared THEN {Raise(RequestValidationError)} ELSE {})

\* the event loop thread, free, takes up a request that waited and answers it
AnswerSuspended ==
    /\ running = <<>>
    /\ \E request \in suspended :
        \E answer \in answers(request) :
            /\ suspended' = suspended \ {request}
            /\ result' = answer
            /\ events' = Append(events, Event(request.request,
                            Call("caller", request.name, PyNone, answer)))
            /\ pc' = "answered"
    /\ UNCHANGED <<langchain_manager, running>>
    /\ AppUnchanged

AppNext ==
    \/ SetLangchainManager
    \/ GetLangchainManager
    \/ GetOrNoneLangchainManager
    \/ InitializeLangchainPersonas
    \/ ResetLangchainSystem
    \/ AutoInitEndpoint
    \/ RouteCalls
    \/ RouteAnswers
    \/ RouteAwaits
    \/ DependentEndpoint
    \/ AnswerSuspended

AppSpec == AppInit /\ [][AppNext]_vars

-----------------------------------------------------------------------------
(* Properties of the quality report *)

\* a report of validate_response_quality is in hand
Reported == pc \in {"validated", "suggested"} /\ result.kind = "return"

Report == result.value

Terms == persona_data.domain_expertise.terms_used_frequently
Phrases == persona_data.communication_style.typical_phrases

\* the checks named by a list of issues or suggestions, in order
CheckNames(entries) == [i \in 1..Len(entries) |-> entries[i].check]

\* the names of `names` whose check is False in c, in order
FalseChecks(c, names) ==
    LET IsF(name) == IsFalse(c[name]) IN SelectSeq(names, IsF)

IssueChecks ==
    <<"word_count_in_range", "has_specific_numbers", "uses_domain_terms",
      "mentions_constraints", "uses_typical_phrases">>

\* the points the checks of a report earn
RawScore(c) ==
    (IF IsTrue(c.word_count_in_range) THEN 15 ELSE 0)
    + (IF IsTrue(c.word_count_optimal) THEN 5 ELSE 0)
    + (IF IsTrue(c.has_specific_numbers) THEN 20 ELSE 0)
    + (IF IsTrue(c.uses_domain_terms) THEN 25 ELSE 0)
    + (IF IsTrue(c.mentions_constraints) THEN 20 ELSE 0)
    + (IF IsTrue(c.uses_typical_phrases) THEN 15 ELSE 0)

\* C1: in every report, passed holds exactly when the reported score (rounded
\* to one decimal) is at least 75
C1_PassedIffScoreAtLeast75 ==
    Reported => (Report.passed <=> Report.score >= min_quality_score * 10)

\* a report that passes with a score of exactly 75.0
C1_Witness == Reported /\ Report.passed /\ Report.score = 750

\* C2: the reported score is rawScore / totalPossible * 100 rounded to one
\* decimal, with totalPossible = 100 - 25 (no domain terms) - 15 (no typical
\* phrases), which is 60 when both lists are empty; the score is in [0, 100]
C2_ScoreFormula ==
    Reported =>
        LET raw == RawScore(Report.checks)
            possible == 100 - (IF Terms = <<>> THEN 25 ELSE 0)
                            - (IF Phrases = <<>> THEN 15 ELSE 0)
        IN /\ 2 * abs(Report.score * possible - raw * 1000) <= possible
           /\ Report.score >= 0 /\ Report.score <= 1000
           /\ (Terms = <<>> /\ Phrases = <<>> =>
                   2 * abs(Report.score * 60 - raw * 1000) <= 60)

\* both lists empty, 20 of 60 points earned: the score is 33.3
C2_Witness ==
    Reported /\ Terms = <<>> /\ Phrases = <<>>
    /\ RawScore(Report.checks) = 20 /\ Report.score = 333

\* C3: with a non-empty domain-term list, uses_domain_terms is true exactly
\* when at least 2 distinct domain terms occur in the response
C3_TwoDistinctTerms ==
    Reported /\ Terms # <<>> =>
        LET found == {lower(Terms[i].val) : i \in
                        {j \in 1..Len(Terms) :
                            Contains(lower(response.val), lower(Terms[j].val))}}
        IN IsTrue(Report.checks.uses_domain_terms) <=> Cardinality(found) >= 2

\* C4 as stated: every scored check that is false, the optimal-window check
\* among them, has an entry in the issues list (a word-count entry is taken
\* to stand for either word-count check), and no other entry is there
C4_IssueForEveryFalseCheck ==
    Reported =>
        LET c == Report.checks
            names == CheckNames(Report.issues)
            Has(name) == \E i \in 1..Len(names) : names[i] = name
        IN /\ Has("word_count_in_range") <=>
                  (IsFalse(c.word_count_in_range) \/ IsFalse(c.word_count_optimal))
           /\ \A k \in 2..Len(IssueChecks) : Has(IssueChecks[k]) <=> IsFalse(c[IssueChecks[k]])

\* C4 (amended): the issues list has exactly one entry for each of the range,
\* numbers, domain-term, constraint and typical-phrase checks that is false,
\* in that order, and no entry for a check that is true or None; a false
\* optimal-window check adds no entry
C4_IssuesAreTheFalseChecks ==
    Reported => CheckNames(Report.issues) = FalseChecks(Report.checks, IssueChecks)

\* in range but outside the optimal window, a None check, and issues reported
C4_Witness ==
    /\ Reported
    /\ IsTrue(Report.checks.word_count_in_range)
    /\ IsFalse(Report.checks.word_count_optimal)
    /\ IsNone(Report.checks.uses_domain_terms)
    /\ IsFalse(Report.checks.uses_typical_phrases)
    /\ Len(Report.issues) = 2

\* C5: the suggestions made from a report and the same profile are one per
\* issue, for the same checks in the same order; a check that is true or
\* None gets no suggestion
C5_SuggestionPerIssue ==
    pc = "suggested" =>
        /\ suggestions.kind = "return"
        /\ CheckNames(suggestions.value) = CheckNames(Report.issues)
        /\ \A i \in 1..Len(suggestions.value) :
               IsFalse(Report.checks[suggestions.value[i].check])

\* suggestions for a report with failing checks and a None check
C5_Witness ==
    /\ pc = "suggested"
    /\ Len(suggestions.value) = 3
    /\ IsNone(Report.checks.uses_typical_phrases)
    /\ IsFalse(Report.checks.uses_domain_terms)
    /\ IsTrue(Report.checks.mentions_constraints)

WithTerms(pdata, ts) ==
    [pdata EXCEPT !.domain_expertise.terms_used_frequently = ts]

WithPhrases(pdata, ps) ==
    [pdata EXCEPT !.communication_style.typical_phrases = ps]

NoIssueFor(report, name) ==
    \A i \in 1..Len(report.issues) : report.issues[i].check # name

\* C6: a response scores at least as much with an empty list as with a
\* non-empty list whose check fails, and a None check has no issue
C6_EmptyListNotPenalized ==
    pc = "validated" /\ result.kind = "return" =>
        /\ IsFalse(Report.checks.uses_domain_terms) =>
               LET r == validate_response_quality(response, WithTerms(persona_data, <<>>))
               IN /\ r.kind = "return"
                  /\ r.value.score >= Report.score
                  /\ NoIssueFor(r.value, "uses_domain_terms")
        /\ IsFalse(Report.checks.uses_typical_phrases) =>
               LET r == validate_response_quality(response, WithPhrases(persona_data, <<>>))
               IN /\ r.kind = "return"
                  /\ r.value.score >= Report.score
                  /\ NoIssueFor(r.value, "uses_typical_phrases")
        /\ IsNone(Report.checks.uses_domain_terms) => NoIssueFor(Report, "uses_domain_terms")
        /\ IsNone(Report.checks.uses_typical_phrases) => NoIssueFor(Report, "uses_typical_phrases")

\* a failing domain-term check whose response scores strictly more without the list
C6_Witness ==
    /\ Reported
    /\ IsFalse(Report.checks.uses_domain_terms)
    /\ Report.score > 0
    /\ validate_response_quality(response, WithTerms(persona_data, <<>>)).value.score
           > Report.score

\* C7 as stated: some word count has the optimal-window check true and the
\* range check false, so that once the responses of every word count up to
\* MaxWordCount have been validated, some report has earned the 5 points
\* without the 15
C7_OptimalWithoutRange ==
    Reported /\ Report.word_count = MaxWordCount => <<0, 5>> \in seen

\* C7 (amended): the optimal window lies inside the range, so a report whose
\* optimal-window check is true has the range check true, and the 5 points
\* are never earned without the 15
C7_OptimalImpliesRange ==
    Reported =>
        /\ IsTrue(Report.checks.word_count_optimal) => IsTrue(Report.checks.word_count_in_range)
        /\ Report.score_breakdown.word_count_optimal = 5 =>
               Report.score_breakdown.word_count_in_range = 15

\* every word count has been validated: reports earned both, the 15 alone
\* or neither
C7_Witness ==
    /\ Reported
    /\ Report.word_count = MaxWordCount
    /\ seen = {<<0, 0>>, <<15, 0>>, <<15, 5>>}

\* C8 as stated: every value of the checks mapping is true, false or None
C8_ChecksAreBoolOrNone ==
    Reported => \A k \in DOMAIN Report.checks : Report.checks[k].type \in {"bool", "NoneType"}

\* C8 (amended): the six scored checks are true, false or None, with None
\* exactly for the domain-term and typical-phrase checks of an empty list;
\* the mapping also holds the two integer counts domain_terms_count and
\* phrases_count
C8_ScoredChecksAreBoolOrNone ==
    Reported =>
        LET c == Report.checks IN
        /\ DOMAIN c = {"word_count_in_range", "word_count_optimal", "has_specific_numbers",
                       "uses_domain_terms", "domain_terms_count", "mentions_constraints",
                       "uses_typical_phrases", "phrases_count"}
        /\ \A k \in {"word_count_in_range", "word_count_optimal", "has_specific_numbers",
                     "mentions_constraints"} : c[k].type = "bool"
        /\ c.uses_domain_terms.type \in {"bool", "NoneType"}
        /\ c.uses_typical_phrases.type \in {"bool", "NoneType"}
        /\ IsNone(c.uses_domain_terms) <=> Terms = <<>>
        /\ IsNone(c.uses_typical_phrases) <=> Phrases = <<>>
        /\ c.domain_terms_count.type = "int"
        /\ c.phrases_count.type = "int"

\* a report with one None check, one boolean list check and a count of 2
C8_Witness ==
    /\ Reported
    /\ IsNone(Report.checks.uses_typical_phrases)
    /\ IsTrue(Report.checks.uses_domain_terms)
    /\ Report.checks.domain_terms_count.val = 2

\* C9: for a response that is a string, validate_response_quality returns a
\* report; an exception raised inside a check does not reach the caller
C9_NoExceptionPropagates ==
    pc = "validated" /\ response.type = "str" => result.kind = "return"

\* C10: for a response that is not a string, validate_response_quality and
\* the evaluators raise and return no result
C10_NonStringFailsFast ==
    pc \in {"validated", "length"} /\ response.type # "str" => result.kind = "raise"

-----------------------------------------------------------------------------
(* Properties of a turn *)

\* the exchanges think_and_respond stored for a persona, one for every
\* validator call made for it from call k on
RECURSIVE ExchangesOf(_, _)
ExchangesOf(id, k) ==
    IF k > Len(calls) THEN <<>>
    ELSE (IF calls[k].persona_id = id
          THEN <<HumanMessage(user_message), AIMessage(calls[k].response)>>
          ELSE <<>>)
         \o ExchangesOf(id, k + 1)

QualityEvents == {"response quality", "validation error"}

\* the validator calls of the turn made with function fn for task i
CallsFor(fn, i) == {k \in 1..Len(calls) : calls[k].fn = fn /\ calls[k].task = i}

\* C11 as stated: whatever validate_response_quality did with the text of the
\* model, that very text is the AI message of the exchange in the chat memory
\* of the persona and the entry handed to the caller, and the quality outcome
\* left nothing but one log event.
C11_TextAlwaysReturned ==
    /\ \A k \in 1..Len(calls) : responses[calls[k].task].response = calls[k].response
    /\ \A id \in DOMAIN personas : memory[id] = InitialMemory[id] \o ExchangesOf(id, 1)
    /\ Cardinality({j \in 1..Len(log) : log[j].event \in QualityEvents}) = Len(calls)

\* C11: whatever validate_response_quality did with the text of the model
\* (passed it, failed it or raised), the chat memory of the persona holds
\* that very text as the AI message of the exchange, the entry of the task
\* carries it, and the agent logged exactly one quality event for the call.
\* The one entry that does not carry the text is that of an exchange whose
\* saving raised: it carries the apology, again whatever the validator did.
C11_TextDeliveredUnchanged ==
    /\ \A k \in 1..Len(calls) :
          responses[calls[k].task].response =
              IF calls[k].saved = "rollback_raised"
              THEN thinking_apology(RollbackError)
              ELSE calls[k].response
    /\ \A id \in DOMAIN personas : memory[id] = InitialMemory[id] \o ExchangesOf(id, 1)
    /\ Cardinality({j \in 1..Len(log) : log[j].event \in QualityEvents}) = Len(calls)

\* call k of the turn ended as `kind` says and its text is the entry of its task
DeliveredAfter(k, kinds, passed) ==
    /\ calls[k].outcome.kind \in kinds
    /\ calls[k].outcome.kind = "return" => calls[k].outcome.value.passed = passed
    /\ responses[calls[k].task].response = calls[k].response

\* a finished turn in which one text passed, one failed and one made the
\* validator raise, and each of them was delivered
C11_Witness ==
    /\ pc = "turn_done"
    /\ \E k \in 1..Len(calls) : DeliveredAfter(k, {"raise"}, FALSE)
    /\ \E k \in 1..Len(calls) : DeliveredAfter(k, {"return"}, TRUE)
    /\ \E k \in 1..Len(calls) : DeliveredAfter(k, {"return"}, FALSE)

\* a finished turn in which saving raised: the chat memory of the persona
\* ends with the text of the model, the entry carries the apology, and
\* nothing was committed
C11_WitnessSavingRaised ==
    /\ pc = "turn_done"
    /\ Len(calls) = 1
    /\ calls[1].saved = "rollback_raised"
    /\ memory[calls[1].persona_id][Len(memory[calls[1].persona_id])] = AIMessage(calls[1].response)
    /\ responses[1].response = thinking_apology(RollbackError)
    /\ db = InitialRows

\* C12: the model calls of a turn overlap: when a turn with two or more
\* tasks has finished, at some moment two of its model calls were in flight.
C12_ModelCallsOverlap ==
    pc = "turn_done" /\ Len(tasks) >= 2 => max_in_flight >= 2

\* C13: when the turn has finished, every text a model call produced has been
\* validated exactly once and scored for uniqueness exactly once, after the
\* last validation of the turn.
C13_ValidatedThenScoredForUniqueness ==
    pc = "turn_done" =>
        \A i \in 1..Len(responses) :
            responses[i].response \in ModelReplies =>
                /\ Cardinality(CallsFor("validate_response_quality", i)) = 1
                /\ Cardinality(CallsFor("calculate_uniqueness_score", i)) = 1
                /\ \A k \in CallsFor("calculate_uniqueness_score", i) :
                      \A j \in 1..Len(calls) :
                          calls[j].fn = "validate_response_quality" => j < k

-----------------------------------------------------------------------------
(* Properties of the uniqueness scorer *)

\* the lower-cased words of a text: its maximal runs of characters that are
\* not whitespace
TokensOf(t) ==
    LET lt == lower(t)
        n == Len(lt)
        starts == {lo \in 1..n : lt[lo] \notin Whitespace
                                  /\ (lo = 1 \/ lt[lo - 1] \in Whitespace)}
        end(lo) == CHOOSE hi \in lo..n :
                       /\ \A j \in lo..hi : lt[j] \notin Whitespace
                       /\ (hi = n \/ lt[hi + 1] \in Whitespace)
    IN {SubSeq(lt, lo, end(lo)) : lo \in starts}

ContentWords(t) == TokensOf(t) \ stop_words

\* a uniqueness report for a non-empty list of siblings is in hand
ScoredAgainstSiblings ==
    pc = "uniqueness" /\ result.kind = "return" /\ other_responses # <<>>

\* the similarity of the candidate with sibling i, before rounding
SimilarityWith(i) == calculate_text_similarity(response, other_responses[i]).value

\* the number v of thousandths is a thousandth nearest to the fraction f
ReportedAs(v, f) ==
    LET d == 1000 * f.num - v * f.den
    IN 2 * (IF d < 0 THEN -d ELSE d) <= f.den

\* the largest similarity of the candidate with a sibling, before rounding
LargestSimilarity ==
    CHOOSE f \in {SimilarityWith(i) : i \in 1..Len(other_responses)} :
        \A i \in 1..Len(other_responses) :
            SimilarityWith(i).num * f.den <= f.num * SimilarityWith(i).den

\* C14 as stated: in the report for a non-empty sibling list, uniqueness_score
\* equals 1 minus most_similar_score.
C14_UniquenessIsOneMinusReportedMaximum ==
    ScoredAgainstSiblings =>
        result.value.uniqueness_score = 1000 - result.value.most_similar_score

\* C14: for a non-empty sibling list the report has one entry per sibling in
\* input order, entry i being the similarity of the candidate with sibling i
\* rounded to 3 decimals; most_similar_score is the largest entry;
\* uniqueness_score is 1 minus the largest similarity, rounded to 3 decimals,
\* so it is within 0.001 of 1 minus most_similar_score; and is_unique holds
\* exactly when the largest similarity is strictly below the threshold.
C14_ReportFollowsSimilarities ==
    ScoredAgainstSiblings =>
        LET r == result.value
            n == Len(other_responses)
            one_minus == Fraction(LargestSimilarity.den - LargestSimilarity.num,
                                  LargestSimilarity.den)
        IN /\ Len(r.similarities) = n
           /\ \A i \in 1..n : ReportedAs(r.similarities[i], SimilarityWith(i))
           /\ \E i \in 1..n : r.most_similar_score = r.similarities[i]
           /\ \A i \in 1..n : r.similarities[i] <= r.most_similar_score
           /\ ReportedAs(r.uniqueness_score, one_minus)
           /\ r.uniqueness_score - (1000 - r.most_similar_score) \in {-1, 0, 1}
           /\ r.is_unique <=>
                 \A i \in 1..n : SimilarityWith(i).num * 1000 < threshold * SimilarityWith(i).den

\* two siblings, the second the more similar; the largest similarity equals
\* the threshold, so the candidate is not unique
C14_Witness ==
    /\ ScoredAgainstSiblings
    /\ Len(other_responses) = 2
    /\ result.value.similarities[1] < result.value.similarities[2]
    /\ result.value.most_similar_score = threshold
    /\ ~result.value.is_unique

\* one word of the candidate among the 80 of the long sibling: the similarity
\* 0.0125 is reported as 0.013 and the uniqueness 0.9875 as 0.988
C14_WitnessHalfway ==
    /\ ScoredAgainstSiblings
    /\ other_responses = <<LongSibling>>
    /\ result.value.similarities = <<13>>
    /\ result.value.most_similar_score = 13
    /\ result.value.uniqueness_score = 988

\* the candidate was scored against itself at the default threshold
ScoredAgainstItself ==
    /\ pc = "uniqueness"
    /\ result.kind = "return"
    /\ other_responses = <<response>>
    /\ threshold = 700

\* C15: a text scored against itself at the default threshold is reported as
\* most_similar_score 1.0, uniqueness_score 0.0 and not unique when it has a
\* word that is not a stop word, and as similarity 0.0 and unique when it
\* has none.
C15_IdenticalTexts ==
    ScoredAgainstItself =>
        IF ContentWords(response.val) # {}
        THEN /\ result.value.most_similar_score = 1000
             /\ result.value.uniqueness_score = 0
             /\ ~result.value.is_unique
        ELSE /\ result.value.similarities = <<0>>
             /\ result.value.most_similar_score = 0
             /\ result.value.is_unique

\* a text of stop words only was scored against itself
C15_Witness ==
    /\ ScoredAgainstItself
    /\ TokensOf(response.val) # {}
    /\ ContentWords(response.val) = {}
    /\ result.value.is_unique

\* a text with a word that is not a stop word was scored against itself
C15_WitnessContent ==
    /\ ScoredAgainstItself
    /\ ContentWords(response.val) # {}
    /\ ~result.value.is_unique

\* the similarity of the candidate with a sibling has been computed
Compared ==
    pc = "similarity" /\ result.forward.kind = "return" /\ result.backward.kind = "return"

\* C16: the similarity is 0.0 when either text has no word left after
\* lower-casing and stop-word removal, and otherwise the number of words the
\* two texts share divided by the number of words in either, a fraction with
\* a positive denominator between 0 and 1.
C16_JaccardOrZero ==
    Compared =>
        LET A == ContentWords(response.val)
            B == ContentWords(other_responses[result.sibling].val)
            s == result.forward.value
        IN /\ s.den > 0
           /\ 0 <= s.num /\ s.num <= s.den
           /\ IF A = {} \/ B = {}
              THEN s.num = 0
              ELSE s.num * Cardinality(A \cup B) = Cardinality(A \cap B) * s.den

\* two texts that share one of their three words
C16_Witness ==
    /\ Compared
    /\ result.forward.value.num = 1
    /\ result.forward.value.den = 3

\* a text with words compared with a text of stop words only
C16_WitnessEmptySet ==
    /\ Compared
    /\ ContentWords(response.val) # {}
    /\ TokensOf(other_responses[result.sibling].val) # {}
    /\ ContentWords(other_responses[result.sibling].val) = {}
    /\ result.forward.value.num = 0

\* C17: the similarity of the candidate with a sibling equals the similarity
\* of the sibling with the candidate.
C17_Symmetric ==
    Compared =>
        result.forward.value.num * result.backward.value.den
            = result.backward.value.num * result.forward.value.den

\* two different texts with a similarity above 0 and below 1
C17_Witness ==
    /\ Compared
    /\ response # other_responses[result.sibling]
    /\ 0 < result.forward.value.num
    /\ result.forward.value.num < result.forward.value.den
    /\ result.backward.value.num > 0

-----------------------------------------------------------------------------
(* Properties of the length and role evaluators *)

\* the number of whitespace-separated tokens of a text: the positions where
\* a character that is not whitespace follows whitespace or starts the text
TokenCount(t) ==
    Cardinality({i \in 1..Len(t) :
        t[i] \notin Whitespace /\ (i = 1 \/ t[i - 1] \in Whitespace)})

\* the five bands of the length evaluator: the word counts, score and status
LengthBands ==
    {[lo |-> 150, hi |-> 250, score |-> 100, status |-> "optimal"],
     [lo |-> 100, hi |-> 149, score |-> 80, status |-> "acceptable_short"],
     [lo |-> 251, hi |-> 300, score |-> 80, status |-> "acceptable_long"],
     [lo |-> 0, hi |-> 99, score |-> 50, status |-> "too_short"],
     [lo |-> 301, hi |-> MaxLengthWords + 1, score |-> 50, status |-> "too_long"]}

LengthEvaluated == pc = "length" /\ result.kind = "return"

\* C18: the word count reported is the number of whitespace-separated tokens
\* and exactly one of the five bands holds it, the band whose score and
\* status are reported.
C18_LengthBands ==
    LengthEvaluated =>
        LET r == result.value
            holding == {b \in LengthBands : b.lo <= r.word_count /\ r.word_count <= b.hi}
        IN /\ r.word_count = TokenCount(response.val)
           /\ Cardinality(holding) = 1
           /\ \A b \in holding : r.score = b.score /\ r.status = b.status

\* the sweep has passed every boundary and evaluated a response of 301 words
C18_Witness ==
    /\ LengthEvaluated
    /\ result.value.word_count = 301
    /\ result.value.status = "too_long"

CategoryNames ==
    {<<"t","r","a","d","i","n","g">>, <<"p","r","o","d","u","c","t">>,
     <<"a","n","a","l","y","s","t">>, <<"r","i","s","k">>,
     <<"c","o","m","m","e","r","c","i","a","l">>, <<"s","u","p","p","o","r","t">>}

\* the categories a role names
CategoriesOf(role) == {c \in CategoryNames : Contains(lower(role.val), c)}

RoleEvaluated == pc = "role" /\ persona_role.type = "str"

\* C19: a role that names none of the six categories gets score 0.7 and
\* status unknown_role, whatever the response says.
C19_UnknownRoleIsNeutral ==
    RoleEvaluated /\ CategoriesOf(persona_role) = {} =>
        /\ result.kind = "return"
        /\ result.value.score = 70
        /\ result.value.status = "unknown_role"

\* a role naming no category was evaluated on a response full of keywords
C19_Witness ==
    /\ RoleEvaluated
    /\ persona_role.val # <<>>
    /\ CategoriesOf(persona_role) = {}
    /\ Len(split(response.val)) = Len(Mentions)
    /\ result.value.status = "unknown_role"

\* the keywords of the categories a role names, as one set
KeywordsOf(role) ==
    UNION {Range(role_keywords[i].keywords) :
              i \in {j \in 1..Len(role_keywords) : role_keywords[j].category \in CategoriesOf(role)}}

\* the score of `matches` matches among `total` keywords
BandScore(matches, total) ==
    IF 10 * matches >= 3 * total THEN 100
    ELSE IF 10 * matches >= 2 * total THEN 80
    ELSE IF 10 * matches >= total THEN 60
    ELSE 40

\* C20: for a role that names a category, total_keywords counts the union of
\* the keyword sets of the categories named, matches counts those of them
\* that occur in the lower-cased response, match_ratio is their quotient, the
\* score is 1.0, 0.8, 0.6 or 0.4 as the ratio reaches 0.3, 0.2, 0.1 or none of
\* them, and no smaller number of matches would have scored higher nor a
\* larger number lower.
C20_KeywordRatioBands ==
    RoleEvaluated /\ CategoriesOf(persona_role) # {} =>
        /\ result.kind = "return"
        /\ LET r == result.value
               keywords == KeywordsOf(persona_role)
           IN /\ r.total_keywords = Cardinality(keywords)
              /\ r.matches = Cardinality({k \in keywords : Contains(lower(response.val), k)})
              /\ r.match_ratio = Fraction(r.matches, r.total_keywords)
              /\ r.score = BandScore(r.matches, r.total_keywords)
              /\ \A m \in 0..r.total_keywords :
                    /\ m <= r.matches => consistency_band(m, r.total_keywords)[1] <= r.score
                    /\ m >= r.matches => consistency_band(m, r.total_keywords)[1] >= r.score

\* a role naming two categories, with 3 of their 10 keywords in the response:
\* the ratio is exactly 0.3
C20_Witness ==
    /\ RoleEvaluated
    /\ Cardinality(CategoriesOf(persona_role)) = 2
    /\ result.kind = "return"
    /\ result.value.matches = 3
    /\ result.value.total_keywords = 10
    /\ result.value.score = 100

RoleSignals == {"score", "matches", "total_keywords", "match_ratio", "status"}

\* C21: every result of evaluate_role_consistency, the one for a role that
\* names no category included, has the fields score, matches, total_keywords,
\* match_ratio and status.
C21_AllSignalsPopulated ==
    RoleEvaluated /\ result.kind = "return" => RoleSignals \subseteq DOMAIN result.value

-----------------------------------------------------------------------------
(* Properties of the empathy and specificity evaluators *)

EmpathyEvaluated == pc = "empathy" /\ result.kind = "return"

\* the score and status the empathy evaluator gives each number of dimensions
EmpathyTable ==
    [n \in 0..4 |->
        CASE n = 0 -> <<40, "no_empathy_markers">>
          [] n = 1 -> <<60, "weak_empathy">>
          [] n = 2 -> <<80, "moderate_empathy">>
          [] OTHER -> <<100, "strong_empathy">>]

\* C22: dimensions_present is the number of true dimensions among thinks,
\* feels, sees and says_does, the score and status are those of the table
\* (0.4, 0.6, 0.8, and 1.0 for 3 or 4), and no smaller number of dimensions
\* would have scored higher.
C22_EmpathyBands ==
    EmpathyEvaluated =>
        LET r == result.value
        IN /\ DOMAIN r.dimensions = {"thinks", "feels", "sees", "says_does"}
           /\ r.dimensions_present = Cardinality({d \in DOMAIN r.dimensions : r.dimensions[d]})
           /\ <<r.score, r.status>> = EmpathyTable[r.dimensions_present]
           /\ \A n \in 0..4 :
                 /\ n <= r.dimensions_present => empathy_band(n)[1] <= r.score
                 /\ n >= r.dimensions_present => empathy_band(n)[1] >= r.score

\* a response with exactly three of the four dimensions
C22_Witness ==
    /\ EmpathyEvaluated
    /\ result.value.dimensions_present = 3
    /\ ~result.value.dimensions.sees
    /\ result.value.score = 100

SpecificityEvaluated == pc = "specificity" /\ result.kind = "return"

\* a text without upper-case letters, digits (the superscript digits are
\* digits too) and quotation marks
PlainLowerCase(t) ==
    \A i \in 1..Len(t) :
        t[i] \notin DOMAIN UpperToLower /\ t[i] \notin isdigit_chars /\ t[i] \notin {"\"", "'"}

AllFalseGeneric(r) ==
    /\ r.indicators = <<FALSE, FALSE, FALSE, FALSE, FALSE>>
    /\ r.specificity_count = 0
    /\ r.score = 40
    /\ r.status = "generic"

\* C23 as claimed: a lower-case text without digits and quotation marks has
\* all five indicators false, count 0, score 0.4 and status generic.
C23_PlainLowerCaseIsGeneric ==
    SpecificityEvaluated /\ PlainLowerCase(response.val) => AllFalseGeneric(result.value)

MarkersSought ==
    {<<" ","f","o","r"," ","e","x","a","m","p","l","e">>, <<" ","e",".","g",".">>,
     <<" ","s","u","c","h"," ","a","s">>,
     <<"y","e","s","t","e","r","d","a","y">>, <<"l","a","s","t"," ","w","e","e","k">>,
     <<"l","a","s","t"," ","m","o","n","t","h">>, <<"r","e","c","e","n","t","l","y">>,
     <<"c","u","r","r","e","n","t","l","y">>}

\* C23 amended: a lower-case text without digits and quotation marks that
\* also contains none of the example markers " for example", " e.g.",
\* " such as" and none of the time references yesterday, last week, last
\* month, recently, currently has all five indicators false, count 0, score
\* 0.4 and status generic.
C23_PlainLowerCaseWithoutMarkersIsGeneric ==
    /\ SpecificityEvaluated
    /\ PlainLowerCase(response.val)
    /\ \A m \in MarkersSought : ~Contains(response.val, m)
    => AllFalseGeneric(result.value)

\* a lower-case text that starts with the words of an example marker
C23_Witness ==
    /\ SpecificityEvaluated
    /\ PlainLowerCase(response.val)
    /\ Len(response.val) > 10
    /\ SubSeq(response.val, 1, 11) = <<"f","o","r"," ","e","x","a","m","p","l","e">>
    /\ result.value.status = "generic"

WellTypedProfile ==
    /\ \A i \in 1..Len(Terms) : Terms[i].type = "str"
    /\ \A i \in 1..Len(Phrases) : Phrases[i].type = "str"

ReportFields == {"passed", "score", "checks", "issues", "word_count", "score_breakdown"}

\* C24: on the empty string every evaluator returns: the length evaluator
\* word_count 0, too_short, 0.5; the empathy and specificity evaluators all
\* dimensions and indicators false and 0.4; the validator, for every profile
\* of strings, a complete report with word_count 0 and passed false.
C24_EmptyString ==
    response = PyStr(<<>>) =>
        /\ pc = "length" =>
              /\ result.kind = "return"
              /\ result.value.word_count = 0
              /\ result.value.status = "too_short"
              /\ result.value.score = 50
        /\ pc = "empathy" =>
              /\ result.kind = "return"
              /\ \A d \in DOMAIN result.value.dimensions : ~result.value.dimensions[d]
              /\ result.value.score = 40
        /\ pc = "specificity" =>
              /\ result.kind = "return"
              /\ \A i \in 1..5 : ~result.value.indicators[i]
              /\ result.value.score = 40
        /\ pc = "validated" /\ WellTypedProfile =>
              /\ result.kind = "return"
              /\ DOMAIN result.value = ReportFields
              /\ result.value.word_count = 0
              /\ ~result.value.passed

\* the empty string was validated against a profile with terms and phrases
C24_Witness ==
    /\ response = PyStr(<<>>)
    /\ pc = "validated"
    /\ WellTypedProfile
    /\ Terms # <<>>
    /\ Phrases # <<>>
    /\ result.kind = "return"
    /\ ~result.value.passed

-----------------------------------------------------------------------------
(* Properties of the global manager *)

\* the calls of set_langchain_manager among the first n calls
SetCallsIn(n) == {k \in 1..n : events[k].op = "set_langchain_manager"}

\* the manager most recently set among the first n calls, None when none was
ManagerAfter(n) ==
    IF SetCallsIn(n) = {}
    THEN PyNone
    ELSE events[CHOOSE k \in SetCallsIn(n) : \A j \in SetCallsIn(n) : j <= k].arg

Getters == {"get_langchain_manager", "get_or_none_langchain_manager"}

\* C25: after any sequence of set_langchain_manager and getter calls,
\* get_langchain_manager raises HTTP 503 iff the most recent set passed None
\* or no set has occurred; otherwise both getters return the manager most
\* recently set, get_or_none_langchain_manager returns None when none is set,
\* and a getter call never changes the stored manager.
C25_GettersFollowLastSet ==
    /\ [](\A i \in DOMAIN events :
            /\ events[i].op = "get_langchain_manager" =>
                 /\ events[i].outcome.kind = "raise" <=> IsNone(ManagerAfter(i))
                 /\ events[i].outcome.kind = "raise" =>
                        events[i].outcome.exc = HTTPException(503)
                 /\ events[i].outcome.kind = "return" =>
                        events[i].outcome.value = ManagerAfter(i)
            /\ events[i].op = "get_or_none_langchain_manager" =>
                 /\ events[i].outcome.kind = "return"
                 /\ events[i].outcome.value = ManagerAfter(i))
    /\ [][pc' \in Getters => langchain_manager' = langchain_manager]_vars

\* get_langchain_manager raised 503 while no manager was set and, after a
\* manager was set, returned that manager
C25_Witness ==
    /\ pc = "get_langchain_manager"
    /\ result.kind = "return"
    /\ result.value \in SuppliedManagers
    /\ langchain_manager = result.value
    /\ \E i \in DOMAIN events :
        /\ events[i].by = "caller"
        /\ events[i].op = "get_langchain_manager"
        /\ events[i].outcome = Raise(HTTPException(503))

\* both getters were called after a manager was set and returned it
C25_WitnessBothGetters ==
    /\ pc = "get_or_none_langchain_manager"
    /\ result.value \in SuppliedManagers
    /\ \E j \in DOMAIN events :
        /\ events[j].by = "caller"
        /\ events[j].op = "get_langchain_manager"
        /\ events[j].outcome = Return(result.value)

\* the calls a route made for the request that call i answers
InnerCalls(i) ==
    {k \in 1..(i - 1) : events[k].request = events[i].request}

CleanupsOf(i) == {k \in InnerCalls(i) : events[k].op = "cleanup"}

ResetCalls ==
    {i \in DOMAIN events : events[i].by = "caller" /\ events[i].op = "/langchain/reset"}

\* call i answered with status "reset" and no manager was set after it
ResetDone(i) ==
    /\ events[i].outcome.kind = "return"
    /\ events[i].outcome.value.status = "reset"
    /\ IsNone(ManagerAfter(i))

\* the manager the route found was cleaned up exactly once, before the
\* global was cleared
CleanedUpOnce(i) ==
    /\ Cardinality(CleanupsOf(i)) = 1
    /\ \A k \in CleanupsOf(i) :
        /\ events[k].arg = events[i].arg
        /\ \A j \in InnerCalls(i) : events[j].op = "set_langchain_manager" => k < j

\* the dependencies resolved for requests to the manager-dependent endpoints
DependenciesResolved ==
    {j \in DOMAIN events : /\ events[j].by = DependentRoute
                           /\ events[j].op = "get_langchain_manager"}

\* the answers given so far to the request that call j was made for
AnswersTo(j) ==
    {k \in DOMAIN events : events[k].request = events[j].request /\ events[k].by = "caller"}

\* the call by which the reset answered by call i cleared the global
ClearedAt(i) ==
    CHOOSE k \in InnerCalls(i) : events[k].op = "set_langchain_manager"

\* every request to a manager-dependent endpoint whose dependency is resolved
\* after the reset answered by call i cleared the global, and before a manager
\* is set again, is answered 503
Answers503Until(i) ==
    \A j \in DependenciesResolved :
        /\ ClearedAt(i) < j
        /\ \A k \in SetCallsIn(j) : ClearedAt(i) < k => IsNone(events[k].arg)
        => /\ events[j].outcome = Raise(HTTPException(503))
           /\ \A k \in AnswersTo(j) : events[k].outcome = Raise(HTTPException(503))
           /\ \A request \in suspended :
                request.request = events[j].request =>
                    answers(request) = {Raise(HTTPException(503))}

\* C26 as stated: POST /langchain/reset returns status "reset" and leaves no
\* global manager set whether or not one was set beforehand; a manager that
\* was set is cleaned up exactly once before it is cleared, and afterwards
\* the manager-dependent endpoints answer 503 until a manager is set again.
C26_ResetAlwaysClears ==
    /\ langchain_manager = ManagerAfter(Len(events))
    /\ \A i \in ResetCalls :
        /\ ResetDone(i)
        /\ ~IsNone(events[i].arg) => CleanedUpOnce(i)
        /\ Answers503Until(i)

\* C26 amended: POST /langchain/reset returns status "reset" and leaves no
\* global manager set when no manager was set or the manager's cleanup
\* returned; a manager that was set is cleaned up exactly once, before it is
\* cleared, and after such a reset the manager-dependent endpoints answer 503
\* until a manager is set again.  When the cleanup raises, the route answers
\* 500 and the manager stays set.
C26_ResetClearsUnlessCleanupRaises ==
    /\ langchain_manager = ManagerAfter(Len(events))
    /\ \A i \in ResetCalls :
        /\ IsNone(events[i].arg) => CleanupsOf(i) = {} /\ ResetDone(i)
        /\ ~IsNone(events[i].arg) =>
            /\ CleanedUpOnce(i)
            /\ \A k \in CleanupsOf(i) :
                IF events[k].outcome.kind = "return"
                THEN ResetDone(i)
                ELSE /\ events[i].outcome.kind = "raise"
                     /\ events[i].outcome.exc = HTTPException(500)
                     /\ ManagerAfter(i) = events[i].arg
        /\ ResetDone(i) => Answers503Until(i)

\* a manager was set, the reset cleaned it up and cleared it, and a request
\* to a dependent endpoint made afterwards was answered 503
C26_Witness ==
    /\ pc = "answered"
    /\ result = Raise(HTTPException(503))
    /\ events[Len(events)].op = DependentRoute
    /\ \E i \in ResetCalls :
        /\ ~IsNone(events[i].arg)
        /\ ResetDone(i)
        /\ \E j \in DependenciesResolved :
            /\ i < j
            /\ events[j].request = events[Len(events)].request

\* a request to a dependent endpoint got its manager, a reset cleaned that
\* manager up and cleared the global, and then the body of the route ran
\* with it
C26_WitnessAnsweredAfterReset ==
    /\ pc = "answered"
    /\ result.kind = "return"
    /\ IsNone(langchain_manager)
    /\ events[Len(events)].op = DependentRoute
    /\ \E i \in ResetCalls, j \in DependenciesResolved :
        /\ j < i
        /\ \A k \in InnerCalls(i) : j < k
        /\ ResetDone(i)
        /\ events[i].arg = result.value.manager
        /\ events[j].outcome = Return(result.value.manager)

\* while a reset was running, the dependency of a request was resolved in a
\* worker thread after the cleanup had returned and before the global was
\* cleared: the request got the cleaned-up manager, and after the reset had
\* answered the body of the route ran with it
C26_WitnessResolvedInsideReset ==
    /\ pc = "answered"
    /\ result.kind = "return"
    /\ IsNone(langchain_manager)
    /\ events[Len(events)].op = DependentRoute
    /\ \E i \in ResetCalls, j \in DependenciesResolved :
        /\ ResetDone(i)
        /\ events[j].request = events[Len(events)].request
        /\ events[j].outcome = Return(events[i].arg)
        /\ result = Handled(events[i].arg)
        /\ \A k \in CleanupsOf(i) : k < j
        /\ j < ClearedAt(i)

\* a reset whose cleanup raised: the answer is 500 and the manager is still set
C26_WitnessCleanupRaised ==
    /\ pc = "/langchain/reset"
    /\ result = Raise(HTTPException(500))
    /\ ~IsNone(langchain_manager)

-----------------------------------------------------------------------------
(* Properties of the entries and of the stored exchanges of a turn *)

\* the positions of active_persona_ids that hold a registered persona
RegisteredPositions ==
    {k \in DOMAIN active_persona_ids : active_persona_ids[k] \in DOMAIN personas}

\* C27: get_all_responses returns exactly one entry for each element of
\* active_persona_ids that is a registered persona, in the order of
\* active_persona_ids; unregistered ids get no entry, so the result is as
\* long as the number of requested ids that are registered.
C27_OneEntryPerRegisteredId ==
    pc = "turn_done" =>
        /\ Len(responses) = Cardinality(RegisteredPositions)
        /\ \A k \in RegisteredPositions :
            responses[Cardinality({j \in RegisteredPositions : j <= k})].persona_id =
                active_persona_ids[k]

\* a finished turn that asked for an unregistered id between two requests
\* for the same registered persona
C27_Witness ==
    /\ pc = "turn_done"
    /\ Len(active_persona_ids) = 3
    /\ active_persona_ids[1] = active_persona_ids[3]
    /\ active_persona_ids[2] \notin DOMAIN personas
    /\ Len(responses) = 2

\* the entry is marked as an error
MarkedError(entry) == "error" \in DOMAIN entry /\ entry.error = TRUE

\* the model calls of persona id that raised so far
RaisedFor(id) ==
    {k \in 1..Len(log) :
        /\ log[k] = LogEvent("error", id, "thinking process")
        /\ (k = 1 \/ log[k - 1] # LogEvent("error", id, "saving memory"))}

\* C28: when the model call of a persona raises, the returned list still has
\* an entry for that persona, that entry is marked error=true, and the entries
\* of the other personas are produced normally.
C28_FailedPersonaMarkedError ==
    pc = "turn_done" =>
        /\ Len(responses) = Len(tasks)
        /\ \A id \in DOMAIN personas :
            Cardinality({i \in 1..Len(responses) :
                            responses[i].persona_id = id /\ MarkedError(responses[i])}) =
                Cardinality(RaisedFor(id))
        /\ \A i \in 1..Len(responses) :
            ~MarkedError(responses[i]) => responses[i].response \in ModelReplies

\* a chat history or a table of rows in which every user message is followed
\* by its reply
Paired(messages, kind) ==
    /\ Len(messages) % 2 = 0
    /\ \A k \in 1..Len(messages) : messages[k][kind] = IF k % 2 = 1 THEN "human" ELSE "ai"

\* the step is a model call of persona id raising inside think_and_respond
ModelCallRaised(id) == log' = Append(log, LogEvent("error", id, "thinking process"))

\* the step is a model call of persona id returning
ModelCallReturned(id) ==
    /\ Len(calls') = Len(calls) + 1
    /\ calls'[Len(calls')].persona_id = id

\* C29: when the model call in think_and_respond raises, think_and_respond
\* does not raise: it returns an apology string and leaves the chat history of
\* the persona and the persisted persona memories unchanged, so no user
\* message is ever recorded without its reply; on success exactly one user
\* message followed by one AI message is appended.
C29_NoQuestionWithoutReply ==
    /\ [](/\ \A id \in DOMAIN personas : Paired(memory[id], "type")
          /\ Paired(db, "message_type"))
    /\ [][\A id \in DOMAIN personas :
            /\ ModelCallRaised(id) =>
                /\ memory' = memory
                /\ db' = db
                /\ responses' = Append(responses,
                        [persona_id |-> id, response |-> thinking_apology(ModelError),
                         system |-> "langchain"])
            /\ ModelCallReturned(id) =>
                /\ \E text \in ModelReplies :
                    memory' = [memory EXCEPT ![id] =
                                  @ \o <<HumanMessage(user_message), AIMessage(text)>>]
                /\ \/ db' = db
                   \/ /\ Len(db') = Len(db) + 2
                      /\ SubSeq(db', 1, Len(db)) = db
                      /\ db'[Len(db') - 1].content = user_message
                      /\ db'[Len(db')].content = memory'[id][Len(memory'[id])].content]_vars

\* a finished turn in which one model call raised and another returned and
\* was stored in the chat history and in the table
C29_Witness ==
    /\ pc = "turn_done"
    /\ \E id \in DOMAIN personas : RaisedFor(id) # {}
    /\ Len(calls) >= 1
    /\ Len(db) > Len(InitialRows)
    /\ \E id \in DOMAIN personas : Len(memory[id]) > Len(InitialMemory[id])

-----------------------------------------------------------------------------
(* The verdict for a profile without terms and phrases *)

\* a report for a profile with no domain terms and no typical phrases
ReportedWithoutLists == Reported /\ Terms = <<>> /\ Phrases = <<>>

\* C30: for a profile with no domain terms and no typical phrases, passed is
\* true exactly when the word count is in [150, 250] and the response has a
\* specific-number pattern and a constraint keyword; the optimal-window check
\* does not enter the verdict.
C30_VerdictWithoutLists ==
    ReportedWithoutLists =>
        (Report.passed <=>
            /\ Report.word_count >= 150
            /\ Report.word_count <= 250
            /\ IsTrue(Report.checks.has_specific_numbers)
            /\ IsTrue(Report.checks.mentions_constraints))

\* a response outside the optimal window that passes
C30_Witness ==
    /\ ReportedWithoutLists
    /\ Report.passed
    /\ IsFalse(Report.checks.word_count_optimal)

\* a response inside the optimal window with a number and no constraint
\* keyword fails
C30_WitnessOptimalFails ==
    /\ ReportedWithoutLists
    /\ ~Report.passed
    /\ IsTrue(Report.checks.word_count_optimal)
    /\ IsTrue(Report.checks.has_specific_numbers)

====
